---- MODULE Spec2Model ----
(***************************************************************************)
(* Lottery lookup and prize engine of bjorndonald/contrast-adjuster.       *)
(*                                                                         *)
(* Spec        the drawing / prize lookup (lottery.go, getLottery...):     *)
(*             one request at a time walks from input validation over the  *)
(*             upstream calls to a response value.                         *)
(* SpecPrize   the prize engine's functions, each applied to inputs drawn  *)
(*             from its paytable amounts, multipliers and keys.            *)
(* SpecTicket  checkPowerballTicket / checkMegaMillionsTicket applied to   *)
(*             one ticket.                                                 *)
(* SpecMatch   countMatchingNumbers applied to one ticket and drawing.     *)
(* Strings the code inspects character by character (the date, the lottery *)
(* type) are sequences of one-character strings; all other strings are     *)
(* TLA+ strings.                                                           *)
(***************************************************************************)
EXTENDS Integers, Sequences, FiniteSets, TLC

VARIABLES
    pc,           \* position of the request: idle, call1, call2, scrape, done, replied
    op,           \* "numbers" (getLotteryWinningNumbers), "prizes" (getLotteryPrizeAmounts)
    date,         \* the request's date string
    lotteryType,  \* the request's lottery type string
    calls,        \* upstream calls issued by the request, oldest first
    replies,      \* what came back for each of them, oldest first
    drawingData,  \* DrawingData.DrawingData kept between Call 1 and Call 2
    response,     \* the value returned by the lookup: [resp, err]
    httpStatus,   \* status code the HTTP handler answered with (0: none yet)
    pz,           \* one evaluation of a prize engine function: inputs and outputs
    tk,           \* one ticket check: inputs and what the evaluator returned
    cm,           \* one evaluation of countMatchingNumbers
    ev            \* concurrent ticket checks: each goroutine's inputs and locals

lookupVars == <<pc, op, date, lotteryType, calls, replies, drawingData, response, httpStatus>>

engineVars == <<pz, tk, cm, ev>>

vars == <<lookupVars, engineVars>>

\* Go's nil pointer / nil interface / nil error.
Nil == [nil |-> TRUE]

(***************************************************************************)
(* Bounds of the model.                                                    *)
(***************************************************************************)
\* Longest DrawingData list Call 1 answers with.
MaxDraws == 2

(***************************************************************************)
(* Character strings.                                                      *)
(***************************************************************************)
Digits == <<"0", "1", "2", "3", "4", "5", "6", "7", "8", "9">>

isDigit(c) == \E i \in 1..10 : Digits[i] = c

DigitVal(c) == (CHOOSE i \in 1..10 : Digits[i] = c) - 1

\* strconv / Sscanf("%d") on a run of decimal digits.
RECURSIVE atoi(_)
atoi(s) == IF Len(s) = 0 THEN 0
           ELSE 10 * atoi(SubSeq(s, 1, Len(s) - 1)) + DigitVal(s[Len(s)])

UpperCase == <<"A", "B", "C", "D", "E", "F", "G", "H", "I", "J", "K", "L", "M",
               "N", "O", "P", "Q", "R", "S", "T", "U", "V", "W", "X", "Y", "Z">>
LowerCase == <<"a", "b", "c", "d", "e", "f", "g", "h", "i", "j", "k", "l", "m",
               "n", "o", "p", "q", "r", "s", "t", "u", "v", "w", "x", "y", "z">>

ToLowerChar(c) == IF \E i \in 1..26 : UpperCase[i] = c
                  THEN LowerCase[CHOOSE i \in 1..26 : UpperCase[i] = c]
                  ELSE c

\* strings.ToLower
ToLower(s) == [i \in 1..Len(s) |-> ToLowerChar(s[i])]

megamillions == <<"m", "e", "g", "a", "m", "i", "l", "l", "i", "o", "n", "s">>
powerball == <<"p", "o", "w", "e", "r", "b", "a", "l", "l">>

(***************************************************************************)
(* Dates: time.Parse("01/02/2006", s) and Time.Format.                     *)
(***************************************************************************)
isLeap(year) == year % 4 = 0 /\ (year % 100 # 0 \/ year % 400 = 0)

daysIn(month, year) ==
    IF month = 2 THEN (IF isLeap(year) THEN 29 ELSE 28)
    ELSE IF month \in {4, 6, 9, 11} THEN 30 ELSE 31

\* Mutant of timeParse: the digits are read but never range-checked.
timeParse_NoRangeCheck(s) ==
    IF /\ Len(s) = 10
       /\ \A i \in {1, 2, 4, 5, 7, 8, 9, 10} : isDigit(s[i])
       /\ s[3] = "/"
       /\ s[6] = "/"
    THEN [ok |-> TRUE, month |-> atoi(SubSeq(s, 1, 2)), day |-> atoi(SubSeq(s, 4, 5)),
          year |-> atoi(SubSeq(s, 7, 10))]
    ELSE [ok |-> FALSE, month |-> 0, day |-> 0, year |-> 0]

\* time.Parse with layout "01/02/2006": two digits, "/", two digits, "/",
\* four digits, nothing after; month in 1..12, day in 1..daysIn.
timeParse(s) ==
    IF /\ Len(s) = 10
       /\ \A i \in {1, 2, 4, 5, 7, 8, 9, 10} : isDigit(s[i])
       /\ s[3] = "/"
       /\ s[6] = "/"
    THEN LET month == atoi(SubSeq(s, 1, 2))
             day   == atoi(SubSeq(s, 4, 5))
             year  == atoi(SubSeq(s, 7, 10))
         IN  IF month \in 1..12 /\ day \in 1..daysIn(month, year)
             THEN [ok |-> TRUE, month |-> month, day |-> day, year |-> year]
             ELSE [ok |-> FALSE, month |-> 0, day |-> 0, year |-> 0]
    ELSE [ok |-> FALSE, month |-> 0, day |-> 0, year |-> 0]

\* A number printed in exactly n decimal digits (zero padded).
RECURSIVE zeroPad(_, _)
zeroPad(n, width) == IF width = 0 THEN <<>>
                     ELSE Append(zeroPad(n \div 10, width - 1), Digits[(n % 10) + 1])

\* parsedDate.Format("01/02/2006"): the date text of the JSON API.
formatMMDDYYYY(t) ==
    zeroPad(t.month, 2) \o <<"/">> \o zeroPad(t.day, 2) \o <<"/">> \o zeroPad(t.year, 4)

\* parsedDate.Format("2006-01-02"): the date text of the scraped page's URL.
formatYYYYMMDD(t) ==
    zeroPad(t.year, 4) \o <<"-">> \o zeroPad(t.month, 2) \o <<"-">> \o zeroPad(t.day, 2)

(***************************************************************************)
(* Upstream data of the JSON API (model.go).                               *)
(***************************************************************************)
\* model.go DrawingItem; PlayDateTicks stands for the int64 tick count.
DrawingItem(playDate, n1, n2, n3, n4, n5, mBall, megaplier, updatedBy, updatedTime, ticks) ==
    [PlayDate |-> playDate, N1 |-> n1, N2 |-> n2, N3 |-> n3, N4 |-> n4, N5 |-> n5,
     MBall |-> mBall, Megaplier |-> megaplier, UpdatedBy |-> updatedBy,
     UpdatedTime |-> updatedTime, PlayDateTicks |-> ticks]

\* The zero value json.Unmarshal leaves when the payload has no such field.
ZeroItem == DrawingItem("", 0, 0, 0, 0, 0, 0, 0, "", "", 0)

\* Entries Call 1 (GetDrawingPagingData) can answer with.
PagingItems ==
    { DrawingItem("2025-08-29T00:00:00", 10, 20, 30, 40, 50, 25, 3,
                  "SERVICE", "2025-08-29T23:05:00", 101),
      DrawingItem("2025-08-30T00:00:00", 5, 12, 33, 47, 70, 1, 2,
                  "PAGING_IMPORT", "2025-08-30T23:07:00", 102),
      DrawingItem("2025-08-29T00:00:00", 0, 7, 7, 71, 7, 99, 0,
                  "", "", 103) }

\* Drawings Call 2 (GetDrawDataByTickWithMatrix) can answer with.
DetailItems ==
    { DrawingItem("2025-08-29T00:00:00", 10, 20, 30, 40, 50, 25, 3,
                  "MATRIX", "2025-08-30T01:00:00", 101),
      DrawingItem("2025-08-26T00:00:00", 8, 9, 61, 62, 63, 24, 5,
                  "MATRIX", "2025-08-27T01:00:00", 99),
      ZeroItem }

\* A key a JSON object does not have.
Absent == [absent |-> TRUE]

\* A JSON value held in an interface{}: a string, a number (json.Unmarshal
\* yields float64; the code also switches on int), anything else by its %v text.
JString(v) == [type |-> "string", str |-> v]
JFloat(v) == [type |-> "float64", num |-> v]
JInt(v) == [type |-> "int", num |-> v]
JOther(text) == [type |-> "other", str |-> text]
JMap(pool, cash) == [type |-> "map", pool |-> pool, cash |-> cash]

\* The Jackpot field of the detail payload: nil, a string, a number, or an
\* object with optional CurrentPrizePool / CurrentCashValue.
JackpotValues ==
    { Nil,
      JString("$302 Million"),
      JFloat(302000000),
      JFloat(1000000),
      JFloat(999999),
      JFloat(1000),
      JFloat(999),
      JMap(JFloat(1500000), JFloat(650000)),
      JMap(JFloat(250000), Absent),
      JMap(Absent, Absent) }

\* model.go DetailedDrawData.
DetailedDrawData(drawing, jackpot) == [Drawing |-> drawing, Jackpot |-> jackpot]

\* Every list of at most n entries.
SeqsUpTo(S, n) == UNION {[1..k -> S] : k \in 0..n}

PagingValues == SeqsUpTo(PagingItems, MaxDraws)

DetailValues == {DetailedDrawData(d, j) : d \in DetailItems, j \in JackpotValues}

(***************************************************************************)
(* What an upstream HTTP exchange can come to.  net: whether client.Do     *)
(* returned a response; readOk: whether io.ReadAll succeeded; status: the  *)
(* status code; outer / inner: whether the envelope {"d": "..."} and the   *)
(* JSON string inside it unmarshal; value: the unmarshalled payload.       *)
(***************************************************************************)
StatusOK == 200

Reply(net, readOk, status, outer, inner, value) ==
    [net |-> net, readOk |-> readOk, status |-> status,
     outer |-> outer, inner |-> inner, value |-> value]

ApiReplies(values) ==
    {Reply(FALSE, FALSE, 0, FALSE, FALSE, Nil)}
    \cup {Reply(TRUE, r, s, FALSE, FALSE, Nil) :
            r \in BOOLEAN, s \in {StatusOK, 503}}
    \cup {Reply(TRUE, TRUE, StatusOK, TRUE, FALSE, Nil)}
    \cup {Reply(TRUE, TRUE, StatusOK, TRUE, TRUE, v) : v \in values}

\* Result of a Go function returning (value, error).
Ok(v) == [ok |-> TRUE, val |-> v, msg |-> ""]
Err(m) == [ok |-> FALSE, val |-> Nil, msg |-> m]

\* The part of getDrawingPagingData / getDrawDataByTickWithMatrix after
\* client.Do: read the body, check the status, unwrap the two JSON layers.
apiResult(r, what) ==
    IF ~r.net THEN Err("failed to make HTTP request: <transport>")
    ELSE IF ~r.readOk THEN Err("failed to read response body: <io>")
    ELSE IF r.status # StatusOK
         THEN Err("API returned non-OK status: " \o ToString(r.status) \o " - <body>")
    ELSE IF ~r.outer THEN Err("failed to unmarshal outer response: <json>")
    ELSE IF ~r.inner THEN Err("failed to unmarshal " \o what \o ": <json>")
    ELSE Ok(r.value)

getDrawingPagingData(r) == apiResult(r, "drawing data")

getDrawDataByTickWithMatrix(r) == apiResult(r, "detailed draw data")

(***************************************************************************)
(* parseMegaMillionsPrizeData: the prize table of the JSON API game.       *)
(***************************************************************************)
\* n / d rounded to the nearest integer, ties to even: what "%.0f" prints
\* of the float64 quotient of two integers whose tie is exactly x.5.
roundHalfEven(n, d) ==
    LET q == n \div d
        r == n % d
    IN  IF 2 * r < d THEN q
        ELSE IF 2 * r > d THEN q + 1
        ELSE IF q % 2 = 0 THEN q ELSE q + 1

\* Mutant of bucketFloat: no Thousand bucket.
bucketFloat_NoThousand(v) ==
    IF v >= 1000000 THEN "$" \o ToString(roundHalfEven(v, 1000000)) \o " Million"
    ELSE "$" \o ToString(v)

\* "$%.0f Million" / "$%.0f Thousand" / "$%.0f" of a float64 amount.
bucketFloat(v) ==
    IF v >= 1000000 THEN "$" \o ToString(roundHalfEven(v, 1000000)) \o " Million"
    ELSE IF v >= 1000 THEN "$" \o ToString(roundHalfEven(v, 1000)) \o " Thousand"
    ELSE "$" \o ToString(v)

\* "$%d Million" / "$%d Thousand" / "$%d" of an int amount (integer division).
bucketInt(v) ==
    IF v >= 1000000 THEN "$" \o ToString(v \div 1000000) \o " Million"
    ELSE IF v >= 1000 THEN "$" \o ToString(v \div 1000) \o " Thousand"
    ELSE "$" \o ToString(v)

\* fmt.Sprintf("%v", x) of an interface{} value.
sprintV(x) == IF x = Nil THEN "<nil>"
              ELSE IF x.type \in {"float64", "int"} THEN ToString(x.num)
              ELSE x.str

\* The switch on detailedData.Jackpot.(type).
jackpotValue(jackpot) ==
    IF jackpot = Nil THEN "Unknown"
    ELSE IF jackpot.type = "string" THEN jackpot.str
    ELSE IF jackpot.type = "float64" THEN bucketFloat(jackpot.num)
    ELSE IF jackpot.type = "int" THEN bucketInt(jackpot.num)
    ELSE IF jackpot.type = "map"
         THEN IF jackpot.pool = Absent THEN "Unknown"
              ELSE IF jackpot.pool = Nil THEN sprintV(jackpot.pool)
              ELSE IF jackpot.pool.type = "float64" THEN bucketFloat(jackpot.pool.num)
              ELSE IF jackpot.pool.type = "int" THEN bucketInt(jackpot.pool.num)
              ELSE sprintV(jackpot.pool)
    ELSE sprintV(jackpot)

\* "$%.1f Million" of a float64 amount: tenths of a million, ties to even
\* (the model's amounts are no ties at the first decimal).
oneDecimalMillion(v) ==
    LET t == roundHalfEven(v, 100000)
    IN  "$" \o ToString(t \div 10) \o "." \o ToString(t % 10) \o " Million"

\* The CurrentCashValue branch.
cashValue(jackpot) ==
    IF jackpot = Nil THEN ""
    ELSE IF jackpot.type # "map" THEN ""
    ELSE IF jackpot.cash = Absent THEN ""
    ELSE IF jackpot.cash = Nil THEN sprintV(jackpot.cash)
    ELSE IF jackpot.cash.type = "float64"
         THEN IF jackpot.cash.num >= 1000000 THEN oneDecimalMillion(jackpot.cash.num)
              ELSE IF jackpot.cash.num >= 1000
                   THEN "$" \o ToString(roundHalfEven(jackpot.cash.num, 1000)) \o " Thousand"
              ELSE "$" \o ToString(jackpot.cash.num)
    ELSE IF jackpot.cash.type = "int"
         THEN IF jackpot.cash.num >= 1000000 THEN oneDecimalMillion(jackpot.cash.num)
              ELSE IF jackpot.cash.num >= 1000
                   THEN "$%!f(int=" \o ToString(jackpot.cash.num \div 1000) \o ") Thousand"
              ELSE "$" \o ToString(jackpot.cash.num)
    ELSE sprintV(jackpot.cash)

\* MegaplierPrize map[string]int of one tier, keyed "2x" .. "10x".
Megaplier(x2, x3, x4, x5, x10) ==
    [m \in {2, 3, 4, 5, 10} |->
        CASE m = 2 -> x2 [] m = 3 -> x3 [] m = 4 -> x4 [] m = 5 -> x5 [] m = 10 -> x10]

MMTier(match, prize, megaplier) ==
    [Match |-> match, MegaMillionsWinners |-> 0, MegaMillionsPrize |-> prize,
     MegaplierPrize |-> megaplier]

\* The prizeTiers literal of parseMegaMillionsPrizeData.
megaMillionsPrizeTiers(jackpot) ==
    << MMTier("5+1 (Jackpot)", jackpot, Megaplier(0, 0, 0, 0, 0)),
       MMTier("5+0", "$1,000,000", Megaplier(2000000, 3000000, 4000000, 5000000, 10000000)),
       MMTier("4+1", "$10,000", Megaplier(20000, 30000, 40000, 50000, 100000)),
       MMTier("4+0", "$500", Megaplier(1000, 1500, 2000, 2500, 5000)),
       MMTier("3+1", "$200", Megaplier(400, 600, 800, 1000, 2000)),
       MMTier("3+0", "$10", Megaplier(20, 30, 40, 50, 100)),
       MMTier("2+1", "$10", Megaplier(20, 30, 40, 50, 100)),
       MMTier("1+1", "$4", Megaplier(14, 21, 28, 35, 70)),
       MMTier("0+1", "$2", Megaplier(10, 15, 20, 25, 50)) >>

\* model.go PrizeInfo; UpdatedTime is the clock reading, "NOW".
PrizeInfo(playDate, jackpot, cash, tiers, updatedBy) ==
    [PlayDate |-> playDate, EstimatedJackpot |-> jackpot, CashValue |-> cash,
     PrizeTiers |-> tiers, UpdatedBy |-> updatedBy, UpdatedTime |-> "NOW"]

parseMegaMillionsPrizeData(detailedData, playDate) ==
    Ok(PrizeInfo(playDate,
                 jackpotValue(detailedData.Jackpot),
                 cashValue(detailedData.Jackpot),
                 megaMillionsPrizeTiers(jackpotValue(detailedData.Jackpot)),
                 "MEGAMILLIONS_API"))

(***************************************************************************)
(* The scraped Powerball page.  A page is what the code's regular          *)
(* expressions find in it:                                                 *)
(*   whites      the captures of every white-ball <div>, in page order     *)
(*   powerball   the captures of the powerball <div>                       *)
(*   multiplier  the captures of the multiplier <span>                     *)
(*   dateHdr     the captures of the title-date <h5>                       *)
(*   jackpot     the first jackpot pattern (1..4) that matches, 0 when     *)
(*               none does, and its capture (pattern 4 has no group)       *)
(*   cash        the same for the cash value patterns (1..3)               *)
(*   cells       the <td data-label=...> cells: label and text             *)
(***************************************************************************)
Page(whites, pb, multiplier, dateHdr, jackpot, cash, cells) ==
    [whites |-> whites, powerball |-> pb, multiplier |-> multiplier,
     dateHdr |-> dateHdr, jackpot |-> jackpot, cash |-> cash, cells |-> cells]

Found(pattern, capture) == [pattern |-> pattern, capture |-> capture]
NotFound == [pattern |-> 0, capture |-> ""]

Cell(label, text) == [label |-> label, text |-> text]

\* One row of the prize table.
Row(winners, prize, ppWinners, ppPrize) ==
    << Cell("Powerball Winners", winners), Cell("Powerball Prize", prize),
       Cell("Power Play Winners", ppWinners), Cell("Power Play Prize", ppPrize) >>

\* strings.TrimSpace on the texts the pages hold.
Padded == [s \in {" $302 Million ", " $100 ", "Powerball Prize ", " 0 "} |->
             CASE s = " $302 Million " -> "$302 Million"
               [] s = " $100 " -> "$100"
               [] s = "Powerball Prize " -> "Powerball Prize"
               [] s = " 0 " -> "0"]

TrimSpace(s) == IF s \in DOMAIN Padded THEN Padded[s] ELSE s

\* strconv.Atoi on the winner counts the pages hold; any other text fails.
Numerals == [s \in {"0", "1", "3", "27", "1204"} |->
               CASE s = "0" -> 0 [] s = "1" -> 1 [] s = "3" -> 3
                 [] s = "27" -> 27 [] s = "1204" -> 1204]

strconvAtoi(s) == IF s \in DOMAIN Numerals THEN Ok(Numerals[s]) ELSE Err("invalid syntax")

\* time.Parse("Mon, Jan 02, 2006", h) followed by Format("2006-01-02T00:00:00")
\* on the headers the pages hold; any other text fails to parse.
HeaderDates == [h \in {"Wed, Aug 27, 2025", "Sat, Aug 30, 2025"} |->
                  CASE h = "Wed, Aug 27, 2025" -> "2025-08-27T00:00:00"
                    [] h = "Sat, Aug 30, 2025" -> "2025-08-30T00:00:00"]

\* The playDate both page parsers derive; "NOW" is time.Now().
pagePlayDate(dateHdr) ==
    IF Len(dateHdr) >= 1
    THEN IF dateHdr[1] \in DOMAIN HeaderDates THEN HeaderDates[dateHdr[1]] ELSE "NOW"
    ELSE "NOW"

CanonicalCells ==
    Row("0", "Grand Prize", "0", "Grand Prize")
    \o Row("1", "$1,000,000", "0", "$2,000,000")
    \o Row("27", "$50,000", "3", "$150,000")
    \o Row("1204", " $100 ", "27", "$300")
    \o Row("1204", "$100", "27", "$300")
    \o Row("1204", "$7", "27", "$21")
    \o Row("1204", "$7", "27", "$21")
    \o Row("1204", "$4", "27", "$12")
    \o Row("1,204,115", "$4", "", "$12")

Pages ==
    { \* a complete page
      Page(<< <<"1","0">>, <<"2","0">>, <<"3","0">>, <<"4","0">>, <<"5","0">> >>,
           << <<"2","5">> >>, << <<"3">> >>, <<"Wed, Aug 27, 2025">>,
           Found(1, " $302 Million "), Found(1, "$140.5 Million"), CanonicalCells),
      \* numbers only: no multiplier, no date, no prize data
      Page(<< <<"0","7">>, <<"1","1">>, <<"2","3">>, <<"4","2">>, <<"6","9">> >>,
           << <<"0","5">> >>, <<>>, <<>>, NotFound, NotFound, <<>>),
      \* six white balls, a date that does not parse, a jackpot matched by
      \* the pattern without a group, a prize table of three rows
      Page(<< <<"1","0">>, <<"2","0">>, <<"3","0">>, <<"4","0">>, <<"5","0">>, <<"6","0">> >>,
           << <<"2","5">>, <<"2","6">> >>, << <<"1","0">> >>, <<"August 27">>,
           Found(4, ""), Found(3, "Option"),
           Row("0", "Grand Prize", "0", "Grand Prize")
           \o Row("2", "$2,000,000", "1", "$2,000,000")
           \o << Cell("Powerball Winners", "27"), Cell("Powerball Prize ", "$100") >>),
      \* four white balls
      Page(<< <<"1","0">>, <<"2","0">>, <<"3","0">>, <<"4","0">> >>,
           << <<"2","5">> >>, << <<"2">> >>, <<"Sat, Aug 30, 2025">>,
           NotFound, NotFound, <<>>),
      \* no powerball
      Page(<< <<"1","0">>, <<"2","0">>, <<"3","0">>, <<"4","0">>, <<"5","0">> >>,
           <<>>, << <<"2">> >>, <<"Sat, Aug 30, 2025">>, NotFound, NotFound, <<>>),
      \* numbers no drawing can have
      Page(<< <<"0","0">>, <<"9","9">>, <<"9","9">>, <<"7">>, <<"7","0">> >>,
           << <<"7","7">> >>, <<>>, <<>>, NotFound, NotFound,
           << Cell("Powerball Prize", "$4") >>),
      \* a prize table whose cells carry other data-label names
      Page(<< <<"1","0">>, <<"2","0">>, <<"3","0">>, <<"4","0">>, <<"5","0">> >>,
           << <<"2","5">> >>, << <<"3">> >>, <<"Wed, Aug 27, 2025">>,
           Found(1, " $302 Million "), NotFound,
           << Cell("Winners", "1"), Cell("Prize", "$1,000,000"),
              Cell("Multiplier Winners", "0"), Cell("Multiplier Prize", "$2,000,000"),
              Cell("Winners", "27"), Cell("Prize", "$50,000"),
              Cell("Multiplier Winners", "3"), Cell("Multiplier Prize", "$150,000") >>),
      \* nothing the patterns match
      Page(<<>>, <<>>, <<>>, <<>>, NotFound, NotFound, <<>>) }

\* model.go WinningNumbers.
WinningNumbers(playDate, n1, n2, n3, n4, n5, mBall, megaplier, updatedBy, updatedTime) ==
    [PlayDate |-> playDate, N1 |-> n1, N2 |-> n2, N3 |-> n3, N4 |-> n4, N5 |-> n5,
     MBall |-> mBall, Megaplier |-> megaplier, UpdatedBy |-> updatedBy,
     UpdatedTime |-> updatedTime]

\* Mutant of parsePowerballHTML: a page without multiplier is refused.
parsePowerballHTML_RequireMultiplier(page) ==
    IF Len(page.whites) < 5
    THEN Err("could not find all 5 white ball numbers, found " \o ToString(Len(page.whites)))
    ELSE IF Len(page.powerball) < 1
    THEN Err("could not find Powerball number")
    ELSE IF Len(page.multiplier) < 1
    THEN Err("could not find Power Play multiplier")
    ELSE Ok(WinningNumbers(pagePlayDate(page.dateHdr),
                           atoi(page.whites[1]), atoi(page.whites[2]),
                           atoi(page.whites[3]), atoi(page.whites[4]),
                           atoi(page.whites[5]),
                           atoi(page.powerball[1]), atoi(page.multiplier[1]),
                           "POWERBALL_SCRAPER", "NOW"))

parsePowerballHTML(page) ==
    IF Len(page.whites) < 5
    THEN Err("could not find all 5 white ball numbers, found " \o ToString(Len(page.whites)))
    ELSE IF Len(page.powerball) < 1
    THEN Err("could not find Powerball number")
    ELSE Ok(WinningNumbers(pagePlayDate(page.dateHdr),
                           atoi(page.whites[1]), atoi(page.whites[2]),
                           atoi(page.whites[3]), atoi(page.whites[4]),
                           atoi(page.whites[5]),
                           atoi(page.powerball[1]),
                           IF Len(page.multiplier) >= 1 THEN atoi(page.multiplier[1]) ELSE -1,
                           "POWERBALL_SCRAPER", "NOW"))

(***************************************************************************)
(* extractPowerballPrizeTiers / parsePowerballPrizeHTML.                   *)
(***************************************************************************)
\* labelGroups[label]: the trimmed texts of the cells whose trimmed label is
\* `label`, in page order.
RECURSIVE labelGroup(_, _)
labelGroup(cells, label) ==
    IF Len(cells) = 0 THEN <<>>
    ELSE LET rest == labelGroup(SubSeq(cells, 1, Len(cells) - 1), label)
             last == cells[Len(cells)]
         IN  IF TrimSpace(last.label) = label
             THEN Append(rest, TrimSpace(last.text))
             ELSE rest

Min(a, b) == IF a < b THEN a ELSE b

\* Mutant of matchDescription: the label is decided by the prize alone.
matchDescription_ByPrize(prize, i) ==
    IF prize = "Grand Prize" THEN "5+1 (Jackpot)"
    ELSE IF prize = "$1,000,000" THEN "5+0"
    ELSE IF prize = "$50,000" THEN "4+1"
    ELSE IF prize = "$100" THEN "4+0"
    ELSE IF prize = "$7" THEN "3+0"
    ELSE IF prize = "$4" THEN "1+1"
    ELSE "Match " \o ToString(i + 1)

\* The switch deciding a row's match description; i counts from 0.
matchDescription(prize, i) ==
    IF prize = "Grand Prize" THEN "5+1 (Jackpot)"
    ELSE IF prize = "$1,000,000" THEN "5+0"
    ELSE IF prize = "$50,000" THEN "4+1"
    ELSE IF prize = "$100" THEN (IF i = 3 THEN "4+0" ELSE "3+1")
    ELSE IF prize = "$7" THEN (IF i = 5 THEN "3+0" ELSE "2+1")
    ELSE IF prize = "$4" THEN (IF i = 7 THEN "1+1" ELSE "0+1")
    ELSE "Match " \o ToString(i + 1)

\* A winner count: 0 when the text is empty or no number.
winnersCount(text) ==
    IF text # "" /\ strconvAtoi(text).ok THEN strconvAtoi(text).val ELSE 0

\* model.go PrizeTier as the scraped game fills it.
PBTier(match, winners, prize, ppWinners, ppPrize) ==
    [Match |-> match, PowerballWinners |-> winners, PowerballPrize |-> prize,
     PowerPlayWinners |-> ppWinners, PowerPlayPrize |-> ppPrize]

\* The tiers synthesized when the page yields none.
placeholderTiers ==
    << PBTier("5+1 (Jackpot)", 0, "Jackpot", 0,
              "2x: Jackpot, 3x: Jackpot, 4x: Jackpot, 5x: Jackpot, 10x: Jackpot"),
       PBTier("5+0", 0, "$1,000,000", 0,
              "2x: $2,000,000, 3x: $3,000,000, 4x: $4,000,000, 5x: $5,000,000, 10x: $10,000,000"),
       PBTier("4+1", 0, "$50,000", 0,
              "2x: $100,000, 3x: $150,000, 4x: $200,000, 5x: $250,000, 10x: $500,000"),
       PBTier("4+0", 0, "$100", 0, "2x: $200, 3x: $300, 4x: $400, 5x: $500, 10x: $1,000"),
       PBTier("3+1", 0, "$100", 0, "2x: $200, 3x: $300, 4x: $400, 5x: $500, 10x: $1,000"),
       PBTier("3+0", 0, "$7", 0, "2x: $14, 3x: $21, 4x: $28, 5x: $35, 10x: $70"),
       PBTier("2+1", 0, "$7", 0, "2x: $14, 3x: $21, 4x: $28, 5x: $35, 10x: $70"),
       PBTier("1+1", 0, "$4", 0, "2x: $8, 3x: $12, 4x: $16, 5x: $20, 10x: $40"),
       PBTier("0+1", 0, "$4", 0, "2x: $8, 3x: $12, 4x: $16, 5x: $20, 10x: $40") >>

extractPowerballPrizeTiers(cells) ==
    LET powerballWinners == labelGroup(cells, "Powerball Winners")
        powerballPrizes  == labelGroup(cells, "Powerball Prize")
        powerPlayWinners == labelGroup(cells, "Power Play Winners")
        powerPlayPrizes  == labelGroup(cells, "Power Play Prize")
        allFound == /\ Len(powerballWinners) > 0 /\ Len(powerballPrizes) > 0
                    /\ Len(powerPlayWinners) > 0 /\ Len(powerPlayPrizes) > 0
        matchDescriptions ==
            [k \in 1..Min(Len(powerballPrizes), 9) |->
                matchDescription(TrimSpace(powerballPrizes[k]), k - 1)]
        maxEntries ==
            Min(Min(Min(9, Len(powerballWinners)), Min(Len(powerballPrizes), Len(powerPlayWinners))),
                Min(Len(powerPlayPrizes), Len(matchDescriptions)))
        prizeTiers ==
            IF allFound
            THEN [k \in 1..maxEntries |->
                     PBTier(matchDescriptions[k],
                            winnersCount(powerballWinners[k]),
                            TrimSpace(powerballPrizes[k]),
                            winnersCount(powerPlayWinners[k]),
                            TrimSpace(powerPlayPrizes[k]))]
            ELSE <<>>
    IN  Ok(IF Len(prizeTiers) = 0 THEN placeholderTiers ELSE prizeTiers)

\* A jackpot / cash value pattern's capture: only a pattern with a group
\* (jackpot patterns 1..3, every cash pattern) yields a second element.
captured(found, withGroup) ==
    IF found.pattern \in withGroup THEN TrimSpace(found.capture) ELSE ""

parsePowerballPrizeHTML(page) ==
    LET tiers == extractPowerballPrizeTiers(page.cells)
    IN  IF ~tiers.ok THEN Err("failed to extract prize tiers: " \o tiers.msg)
        ELSE Ok(PrizeInfo(pagePlayDate(page.dateHdr),
                          captured(page.jackpot, {1, 2, 3}),
                          captured(page.cash, {1, 2, 3}),
                          tiers.val,
                          "POWERBALL_SCRAPER"))

(***************************************************************************)
(* The page fetch: scrapePowerballPage / scrapePowerballPrizePage.         *)
(* gzip: whether Content-Encoding names gzip; gzipOk: whether the stream   *)
(* has a gzip header.                                                      *)
(***************************************************************************)
PageReply(net, status, gzip, gzipOk, readOk, page) ==
    [net |-> net, status |-> status, gzip |-> gzip, gzipOk |-> gzipOk,
     readOk |-> readOk, page |-> page]

PageReplies ==
    {PageReply(FALSE, 0, FALSE, FALSE, FALSE, Nil)}
    \cup {PageReply(TRUE, 404, FALSE, TRUE, TRUE, Nil)}
    \cup {PageReply(TRUE, StatusOK, TRUE, FALSE, TRUE, Nil)}
    \cup {PageReply(TRUE, StatusOK, g, TRUE, FALSE, Nil) : g \in BOOLEAN}
    \cup {PageReply(TRUE, StatusOK, g, TRUE, TRUE, p) : g \in BOOLEAN, p \in Pages}

\* The part of both scrape functions between client.Do and the parse:
\* the page text or the error.
pageBody(r) ==
    IF ~r.net THEN Err("failed to make HTTP request: <transport>")
    ELSE IF r.status # StatusOK
         THEN Err("Powerball website returned non-OK status: " \o ToString(r.status))
    ELSE IF r.gzip /\ ~r.gzipOk THEN Err("failed to create gzip reader: <gzip>")
    ELSE IF r.gzip /\ ~r.readOk THEN Err("failed to read gzipped response body: <io>")
    ELSE IF ~r.readOk THEN Err("failed to read response body: <io>")
    ELSE Ok(r.page)

scrapePowerballPage(r) ==
    IF ~pageBody(r).ok THEN pageBody(r)
    ELSE LET parsed == parsePowerballHTML(pageBody(r).val)
         IN  IF ~parsed.ok THEN Err("failed to parse Powerball HTML: " \o parsed.msg)
             ELSE parsed

scrapePowerballPrizePage(r) ==
    IF ~pageBody(r).ok THEN pageBody(r)
    ELSE LET parsed == parsePowerballPrizeHTML(pageBody(r).val)
         IN  IF ~parsed.ok THEN Err("failed to parse Powerball prize HTML: " \o parsed.msg)
             ELSE parsed

(***************************************************************************)
(* The lookup requests.                                                    *)
(***************************************************************************)
\* model.go LotteryResponse / PrizeResponse: payload is WinningNumbers or
\* PrizeInfo.
Response(success, d, t, payload, error) ==
    [Success |-> success, Date |-> d, LotteryType |-> t, Payload |-> payload,
     Error |-> error]

\* What a lookup returns: the response and Go's error value.
Return(resp) == [resp |-> resp, err |-> Nil]

\* Mutant of Call: the call carries no identifier.
Call_NoTicks(endpoint, dateText, ticks) ==
    [endpoint |-> endpoint, date |-> dateText, PlayDateTicks |-> 0]

\* An upstream call: the endpoint and what the request body / URL carries.
Call(endpoint, dateText, ticks) ==
    [endpoint |-> endpoint, date |-> dateText, PlayDateTicks |-> ticks]

PagingEndpoint == "utilservice.asmx/GetDrawingPagingData"
DetailEndpoint == "utilservice.asmx/GetDrawDataByTickWithMatrix"
PageEndpoint == "powerball.com/draw-result"

MkDate(mm, dd, yyyy) == mm \o <<"/">> \o dd \o <<"/">> \o yyyy

\* The date strings requests carry.
Dates ==
    {MkDate(mm, dd, yyyy) :
        mm \in {<<"0","2">>, <<"0","8">>, <<"1","3">>, <<"8">>},
        dd \in {<<"2","9">>, <<"3","0">>, <<"4","5">>},
        yyyy \in {<<"2","0","2","4">>, <<"2","0","2","5">>}}
    \cup {<<"i","n","v","a","l","i","d","-","d","a","t","e">>,
          <<"2","0","2","5","-","0","8","-","2","9">>}

\* The lottery type strings requests carry.
LotteryTypes ==
    { megamillions,
      <<"M","e","g","a","M","i","l","l","i","o","n","s">>,
      powerball,
      <<"P","O","W","E","R","B","A","L","L">>,
      <<"l","o","t","t","o">> }

UnsupportedError ==
    "Unsupported lottery type. Currently only 'megamillions' and 'powerball' are supported."

InvalidDateError == "Invalid date format. Please use MM/DD/YYYY format. Error: <parse>"

NoDrawingError == "No drawing data found for the specified date"

\* The entry of getLotteryWinningNumbers / getLotteryPrizeAmounts: validate
\* the type and the date, then start the game's retrieval, whose first step
\* issues the first upstream call.
lookup(o, d, t) ==
    /\ pc = "idle"
    /\ op' = o
    /\ date' = d
    /\ lotteryType' = t
    /\ replies' = <<>>
    /\ drawingData' = <<>>
    /\ httpStatus' = 0
    /\ UNCHANGED engineVars
    /\ LET lotteryTypeLower == ToLower(t)
           parsedDate == timeParse(d)
       IN  IF lotteryTypeLower # megamillions /\ lotteryTypeLower # powerball
           THEN /\ response' = Return(Response(FALSE, d, t, Nil, UnsupportedError))
                /\ calls' = <<>>
                /\ pc' = "done"
           ELSE IF ~parsedDate.ok
           THEN /\ response' = Return(Response(FALSE, d, t, Nil, InvalidDateError))
                /\ calls' = <<>>
                /\ pc' = "done"
           ELSE IF lotteryTypeLower = megamillions
           THEN /\ response' = Nil
                /\ calls' = <<Call(PagingEndpoint, formatMMDDYYYY(parsedDate), 0)>>
                /\ pc' = "call1"
           ELSE /\ response' = Nil
                /\ calls' = <<Call(PageEndpoint, formatYYYYMMDD(parsedDate), 0)>>
                /\ pc' = "scrape"

getLotteryWinningNumbers == \E d \in Dates, t \in LotteryTypes : lookup("numbers", d, t)

getLotteryPrizeAmounts == \E d \in Dates, t \in LotteryTypes : lookup("prizes", d, t)

\* Mutant of firstDrawing: the last entry of the list is taken.
firstDrawing_Last(items) == items[Len(items)]

\* drawingItem := drawingData.DrawingData[0]
firstDrawing(items) == items[1]

\* The WinningNumbers both branches of getMegaMillionsWinningNumbers copy
\* out of a DrawingItem.
winningNumbersOf(item) ==
    WinningNumbers(item.PlayDate, item.N1, item.N2, item.N3, item.N4, item.N5,
                   item.MBall, item.Megaplier, item.UpdatedBy, item.UpdatedTime)

\* Mutant of noDrawingFound: an empty list is answered as a success.
noDrawingFound_AsSuccess(d) == Return(Response(TRUE, d, megamillions, Nil, ""))

\* Mutant of noDrawingFound: an empty list is answered as the transport
\* failure is.
noDrawingFound_AsTransport(d) ==
    Return(Response(FALSE, d, megamillions, Nil,
                    "Failed to get drawing data: failed to make HTTP request: <transport>"))

\* The response to a Call 1 that holds no drawing.
noDrawingFound(d) == Return(Response(FALSE, d, megamillions, Nil, NoDrawingError))

\* Step 1 of getMegaMillionsWinningNumbers / getMegaMillionsPrizeAmounts:
\* Call 1 has returned; fail, report no drawing, or issue Call 2.
megaMillionsStep1(r) ==
    LET res == getDrawingPagingData(r)
    IN  /\ replies' = Append(replies, r)
        /\ UNCHANGED <<op, date, lotteryType, httpStatus, engineVars>>
        /\ IF ~res.ok
           THEN /\ response' = Return(Response(FALSE, date, megamillions, Nil,
                                               "Failed to get drawing data: " \o res.msg))
                /\ pc' = "done"
                /\ UNCHANGED <<calls, drawingData>>
           ELSE IF Len(res.val) = 0
           THEN /\ response' = noDrawingFound(date)
                /\ pc' = "done"
                /\ UNCHANGED <<calls, drawingData>>
           ELSE /\ drawingData' = res.val
                /\ calls' = Append(calls, Call(DetailEndpoint, <<>>, firstDrawing(res.val).PlayDateTicks))
                /\ pc' = "call2"
                /\ UNCHANGED response

\* Mutant of megaMillionsNumbers: a failed Call 2 fails the lookup, as it
\* does in getMegaMillionsPrizeAmounts.
megaMillionsNumbers_Propagate(drawingItem, res) ==
    IF ~res.ok
    THEN Return(Response(FALSE, date, megamillions, Nil,
                         "Failed to get detailed draw data: " \o res.msg))
    ELSE Return(Response(TRUE, date, megamillions, winningNumbersOf(res.val.Drawing), ""))

\* getMegaMillionsWinningNumbers once Call 2 has returned.
megaMillionsNumbers(drawingItem, res) ==
    IF ~res.ok
    THEN Return(Response(TRUE, date, megamillions, winningNumbersOf(drawingItem), ""))
    ELSE Return(Response(TRUE, date, megamillions, winningNumbersOf(res.val.Drawing), ""))

\* getMegaMillionsPrizeAmounts once Call 2 has returned.
megaMillionsPrizes(drawingItem, res) ==
    IF ~res.ok
    THEN Return(Response(FALSE, date, megamillions, Nil,
                         "Failed to get detailed draw data: " \o res.msg))
    ELSE LET prizeInfo == parseMegaMillionsPrizeData(res.val, drawingItem.PlayDate)
         IN  IF ~prizeInfo.ok
             THEN Return(Response(FALSE, date, megamillions, Nil,
                                  "Failed to parse prize data: " \o prizeInfo.msg))
             ELSE Return(Response(TRUE, date, megamillions, prizeInfo.val, ""))

getMegaMillionsWinningNumbers_Call1 ==
    /\ pc = "call1"
    /\ op = "numbers"
    /\ \E r \in ApiReplies(PagingValues) : megaMillionsStep1(r)

getMegaMillionsWinningNumbers_Call2 ==
    /\ pc = "call2"
    /\ op = "numbers"
    /\ \E r \in ApiReplies(DetailValues) :
          /\ replies' = Append(replies, r)
          /\ response' = megaMillionsNumbers(firstDrawing(drawingData),
                                             getDrawDataByTickWithMatrix(r))
    /\ pc' = "done"
    /\ UNCHANGED <<op, date, lotteryType, calls, drawingData, httpStatus, engineVars>>

getMegaMillionsPrizeAmounts_Call1 ==
    /\ pc = "call1"
    /\ op = "prizes"
    /\ \E r \in ApiReplies(PagingValues) : megaMillionsStep1(r)

getMegaMillionsPrizeAmounts_Call2 ==
    /\ pc = "call2"
    /\ op = "prizes"
    /\ \E r \in ApiReplies(DetailValues) :
          /\ replies' = Append(replies, r)
          /\ response' = megaMillionsPrizes(firstDrawing(drawingData),
                                            getDrawDataByTickWithMatrix(r))
    /\ pc' = "done"
    /\ UNCHANGED <<op, date, lotteryType, calls, drawingData, httpStatus, engineVars>>

\* Mutant of powerballNumbers: a failed scrape is returned as Go error.
powerballNumbers_Raise(res) ==
    IF ~res.ok
    THEN [resp |-> Nil, err |-> [msg |-> "Failed to scrape Powerball data: " \o res.msg]]
    ELSE Return(Response(TRUE, date, powerball, res.val, ""))

\* getPowerballWinningNumbers once the page fetch has returned.
powerballNumbers(res) ==
    IF ~res.ok
    THEN Return(Response(FALSE, date, powerball, Nil,
                         "Failed to scrape Powerball data: " \o res.msg))
    ELSE Return(Response(TRUE, date, powerball, res.val, ""))

\* getPowerballPrizeAmounts once the page fetch has returned.
powerballPrizes(res) ==
    IF ~res.ok
    THEN Return(Response(FALSE, date, powerball, Nil,
                         "Failed to scrape Powerball prize data: " \o res.msg))
    ELSE Return(Response(TRUE, date, powerball, res.val, ""))

\* Mutant of getPowerballWinningNumbers: a failed page fetch is issued once
\* more.
getPowerballWinningNumbers_Retry ==
    /\ pc = "scrape"
    /\ op = "numbers"
    /\ \E r \in PageReplies :
          /\ replies' = Append(replies, r)
          /\ IF ~scrapePowerballPage(r).ok /\ Len(calls) < 2
             THEN /\ calls' = Append(calls, calls[1])
                  /\ pc' = "scrape"
                  /\ UNCHANGED response
             ELSE /\ response' = powerballNumbers(scrapePowerballPage(r))
                  /\ pc' = "done"
                  /\ UNCHANGED calls
    /\ UNCHANGED <<op, date, lotteryType, drawingData, httpStatus, engineVars>>

getPowerballWinningNumbers ==
    /\ pc = "scrape"
    /\ op = "numbers"
    /\ \E r \in PageReplies :
          /\ replies' = Append(replies, r)
          /\ response' = powerballNumbers(scrapePowerballPage(r))
    /\ pc' = "done"
    /\ UNCHANGED <<op, date, lotteryType, calls, drawingData, httpStatus, engineVars>>

getPowerballPrizeAmounts ==
    /\ pc = "scrape"
    /\ op = "prizes"
    /\ \E r \in PageReplies :
          /\ replies' = Append(replies, r)
          /\ response' = powerballPrizes(scrapePowerballPrizePage(r))
    /\ pc' = "done"
    /\ UNCHANGED <<op, date, lotteryType, calls, drawingData, httpStatus, engineVars>>

\* The status lotteryWinningNumbersHandler / lotteryPrizeAmountsHandler
\* answers with.
handlerStatus(ret) ==
    IF ret.err # Nil THEN 500
    ELSE IF ret.resp.Success THEN StatusOK
    ELSE 400

\* The handler answers and the request is over; requests share no state, so
\* a behaviour follows one request.
lotteryHandler ==
    /\ pc = "done"
    /\ httpStatus' = handlerStatus(response)
    /\ pc' = "replied"
    /\ UNCHANGED <<op, date, lotteryType, calls, replies, drawingData, response, engineVars>>

(***************************************************************************)
(* The demo endpoint of the scraped game: the prize_tiers literal of       *)
(* powerballDemoHandler.                                                   *)
(***************************************************************************)
DemoTier(match, prize, example) ==
    [match |-> match, prize |-> prize, power_play_example |-> example]

powerballDemoPrizeTiers ==
    << DemoTier("5 white balls + Powerball", "Jackpot (varies)", "All multipliers = Jackpot"),
       DemoTier("5 white balls (no Powerball)", "$1,000,000",
                "2x: $2,000,000, 3x: $3,000,000, 4x: $4,000,000, 5x: $5,000,000, 10x: $10,000,000"),
       DemoTier("4 white balls + Powerball", "$50,000",
                "2x: $100,000, 3x: $150,000, 4x: $200,000, 5x: $250,000, 10x: $500,000"),
       DemoTier("4 white balls (no Powerball)", "$100",
                "2x: $200, 3x: $300, 4x: $400, 5x: $500, 10x: $1,000"),
       DemoTier("3 white balls + Powerball", "$100",
                "2x: $200, 3x: $300, 4x: $400, 5x: $500, 10x: $1,000"),
       DemoTier("3 white balls (no Powerball)", "$7",
                "2x: $14, 3x: $21, 4x: $28, 5x: $35, 10x: $70"),
       DemoTier("2 white balls + Powerball", "$7",
                "2x: $14, 3x: $21, 4x: $28, 5x: $35, 10x: $70"),
       DemoTier("1 white ball + Powerball", "$4",
                "2x: $8, 3x: $12, 4x: $16, 5x: $20, 10x: $40"),
       DemoTier("Powerball only", "$4",
                "2x: $8, 3x: $12, 4x: $16, 5x: $20, 10x: $40") >>

\* No lookup under way.
LookupIdle ==
    /\ pc = "idle"
    /\ op = "none"
    /\ date = <<>>
    /\ lotteryType = <<>>
    /\ calls = <<>>
    /\ replies = <<>>
    /\ drawingData = <<>>
    /\ response = Nil
    /\ httpStatus = 0

Init ==
    /\ LookupIdle
    /\ pz = Nil
    /\ tk = Nil
    /\ cm = Nil
    /\ ev = Nil

Next ==
    \/ getLotteryWinningNumbers
    \/ getLotteryPrizeAmounts
    \/ getMegaMillionsWinningNumbers_Call1
    \/ getMegaMillionsWinningNumbers_Call2
    \/ getMegaMillionsPrizeAmounts_Call1
    \/ getMegaMillionsPrizeAmounts_Call2
    \/ getPowerballWinningNumbers
    \/ getPowerballPrizeAmounts
    \/ lotteryHandler

Spec == Init /\ [][Next]_vars

(***************************************************************************)
(* Properties of the lookup (Spec).                                        *)
(***************************************************************************)
\* An upstream exchange that delivered a payload the code could unmarshal.
ReplySucceeded(r) == r.net /\ r.readOk /\ r.status = 200 /\ r.outer /\ r.inner

\* The request went down the JSON API path.
OnApiPath == Len(calls) >= 1 /\ calls[1].endpoint = PagingEndpoint

Finished == pc \in {"done", "replied"}

\* C1: in a winning-numbers lookup of the JSON API game, whenever Call 1
\* fully succeeded with at least one draw and Call 2 failed in any way, the
\* lookup returns a success whose drawing is the first entry of Call 1: its
\* five numbers, bonus number, multiplier and UpdatedBy.
C1_FallbackOnDetailFailure ==
    (/\ Finished
     /\ op = "numbers"
     /\ OnApiPath
     /\ Len(replies) >= 1
     /\ ReplySucceeded(replies[1])
     /\ Len(replies[1].value) >= 1)
    => /\ Len(replies) = 2
       /\ ~ReplySucceeded(replies[2]) =>
            /\ response.err = Nil
            /\ response.resp.Success
            /\ response.resp.Error = ""
            /\ response.resp.Payload # Nil
            /\ \A f \in {"N1", "N2", "N3", "N4", "N5", "MBall", "Megaplier", "UpdatedBy"} :
                  response.resp.Payload[f] = replies[1].value[1][f]

\* C1 witness: Call 2 answered 503 and the lookup succeeded with the paging
\* entry written by "SERVICE".
C1_Witness ==
    /\ pc = "done"
    /\ op = "numbers"
    /\ Len(replies) = 2
    /\ replies[2].net
    /\ replies[2].status = 503
    /\ response.resp.Success
    /\ response.resp.Payload # Nil
    /\ response.resp.Payload.UpdatedBy = "SERVICE"

\* C2: in a winning-numbers lookup of the JSON API game, when Call 1
\* succeeds with zero draws the lookup returns the failure "No drawing data
\* found ..." with no drawing, and Call 2 is never issued.
C2_NoDrawingFound ==
    (/\ op = "numbers"
     /\ OnApiPath
     /\ Len(replies) >= 1
     /\ ReplySucceeded(replies[1])
     /\ Len(replies[1].value) = 0)
    => /\ Finished
       /\ response.err = Nil
       /\ ~response.resp.Success
       /\ response.resp.Error = "No drawing data found for the specified date"
       /\ response.resp.Payload = Nil
       /\ \A i \in 1..Len(calls) : calls[i].endpoint # DetailEndpoint
       /\ Len(calls) = 1

\* C2 witness: a finished lookup whose Call 1 held no drawing.
C2_Witness ==
    /\ pc = "done"
    /\ op = "numbers"
    /\ OnApiPath
    /\ Len(replies) = 1
    /\ ReplySucceeded(replies[1])
    /\ replies[1].value = <<>>
    /\ ~response.resp.Success

\* The date strings of the model that are calendar dates written MM/DD/YYYY.
ValidDateTexts ==
    { <<"0","2","/","2","9","/","2","0","2","4">>,
      <<"0","8","/","2","9","/","2","0","2","4">>,
      <<"0","8","/","3","0","/","2","0","2","4">>,
      <<"0","8","/","2","9","/","2","0","2","5">>,
      <<"0","8","/","3","0","/","2","0","2","5">> }

\* The lottery type strings of the model that spell a supported game.
SupportedTypeTexts ==
    { <<"m","e","g","a","m","i","l","l","i","o","n","s">>,
      <<"M","e","g","a","M","i","l","l","i","o","n","s">>,
      <<"p","o","w","e","r","b","a","l","l">>,
      <<"P","O","W","E","R","B","A","L","L">> }

\* C3: for both lookups, a request whose date is no valid MM/DD/YYYY date
\* or whose game is neither megamillions nor powerball (in any letter case)
\* ends in a failure result, and at no point of it is an upstream call made.
C3_InvalidInputNoUpstreamCall ==
    (/\ op # "none"
     /\ \/ date \notin ValidDateTexts
        \/ lotteryType \notin SupportedTypeTexts)
    => /\ calls = <<>>
       /\ replies = <<>>
       /\ Finished
       /\ response.err = Nil
       /\ ~response.resp.Success
       /\ response.resp.Payload = Nil
       /\ response.resp.Error # ""

\* C3 witness: the prize lookup answered "13/45/2025" for powerball with a
\* failure.
C3_Witness ==
    /\ pc = "replied"
    /\ op = "prizes"
    /\ date = <<"1","3","/","4","5","/","2","0","2","5">>
    /\ lotteryType = powerball
    /\ calls = <<>>
    /\ ~response.resp.Success
    /\ httpStatus = 400

(***************************************************************************)
(* The prize engine: the paytables and the multiplier rules.               *)
(***************************************************************************)
\* Mutant of boolToInt: the two values swapped.
boolToInt_Swapped(b) == IF b THEN 0 ELSE 1

boolToInt(b) == IF b THEN 1 ELSE 0

\* fmt.Sprintf("%d+%d", whiteBallMatches, boolToInt(hasBonus))
prizeKey(whiteBallMatches, hasBonus) ==
    ToString(whiteBallMatches) \o "+" \o ToString(boolToInt(hasBonus))

Tier(key, description, baseAmount) ==
    [key |-> key, description |-> description, baseAmount |-> baseAmount]

\* The prizeTiers map literal of calculatePowerballPrize, entry by entry;
\* amounts in cents.
powerballPrizeTiers(estimatedJackpot) ==
    << Tier("5+1", estimatedJackpot, 0),
       Tier("5+0", "$1,000,000", 100000000),
       Tier("4+1", "$50,000", 5000000),
       Tier("4+0", "$100", 10000),
       Tier("3+1", "$100", 10000),
       Tier("3+0", "$7", 700),
       Tier("2+1", "$7", 700),
       Tier("2+0", "$0", 0),
       Tier("1+1", "$4", 400),
       Tier("1+0", "$0", 0),
       Tier("0+1", "$4", 400),
       Tier("0+0", "$0", 0) >>

\* The prizeTiers map literal of calculateMegaMillionsPrize.
megaMillionsPaytable(estimatedJackpot) ==
    << Tier("5+1", estimatedJackpot, 0),
       Tier("5+0", "$1,000,000", 100000000),
       Tier("4+1", "$10,000", 1000000),
       Tier("4+0", "$500", 50000),
       Tier("3+1", "$200", 20000),
       Tier("3+0", "$10", 1000),
       Tier("2+1", "$10", 1000),
       Tier("2+0", "$0", 0),
       Tier("1+1", "$4", 400),
       Tier("1+0", "$0", 0),
       Tier("0+1", "$2", 200),
       Tier("0+0", "$0", 0) >>

\* Mutant of tierLookup: every key takes the default branch.
tierLookup_Default(tiers, key) ==
    [description |-> "No Prize", baseAmount |-> 0, exists |-> FALSE]

\* prizeInfo, exists := prizeTiers[key], and the default that follows.
tierLookup(tiers, key) ==
    IF \E i \in 1..Len(tiers) : tiers[i].key = key
    THEN LET prizeInfo == tiers[CHOOSE i \in 1..Len(tiers) : tiers[i].key = key]
         IN  [description |-> prizeInfo.description, baseAmount |-> prizeInfo.baseAmount,
              exists |-> TRUE]
    ELSE [description |-> "No Prize", baseAmount |-> 0, exists |-> FALSE]

calculatePowerballPrize(whiteBallMatches, hasPowerball, estimatedJackpot) ==
    tierLookup(powerballPrizeTiers(estimatedJackpot), prizeKey(whiteBallMatches, hasPowerball))

calculateMegaMillionsPrize(whiteBallMatches, hasMegaBall, estimatedJackpot) ==
    tierLookup(megaMillionsPaytable(estimatedJackpot), prizeKey(whiteBallMatches, hasMegaBall))

\* The base amount in cents above which the 10x multiplier is replaced.
PowerPlayCap == 15000000

\* The formatted amount both multiplier functions print.
formatPrize(amount) ==
    IF amount >= 100000000 THEN "$" \o ToString(amount \div 100000000) \o " Million"
    ELSE IF amount >= 1000000 THEN "$" \o ToString(amount \div 100)
    ELSE IF amount >= 100000 THEN "$" \o ToString(amount \div 100)
    ELSE IF amount >= 10000 THEN "$" \o ToString(amount \div 100)
    ELSE IF amount >= 100 THEN "$" \o ToString(amount \div 100)
    ELSE "$0"

Multiplied(amount) == [formatted |-> formatPrize(amount), amount |-> amount]

\* Mutant of calculatePowerPlayPrize: the cap applies from the threshold on.
calculatePowerPlayPrize_CapAtThreshold(baseAmount, multiplier) ==
    Multiplied(baseAmount * (IF multiplier = 10 /\ baseAmount >= PowerPlayCap
                             THEN 2 ELSE multiplier))

\* Mutant of calculatePowerPlayPrize: no cap.
calculatePowerPlayPrize_NoCap(baseAmount, multiplier) ==
    Multiplied(baseAmount * multiplier)

calculatePowerPlayPrize(baseAmount, multiplier) ==
    LET effective == IF multiplier = 10 /\ baseAmount > PowerPlayCap THEN 2 ELSE multiplier
    IN  Multiplied(baseAmount * effective)

\* Mutant of calculateMegaplierPrize: the Power Play cap copied over.
calculateMegaplierPrize_Capped(baseAmount, multiplier) ==
    Multiplied(baseAmount * (IF multiplier = 10 /\ baseAmount > PowerPlayCap
                             THEN 2 ELSE multiplier))

calculateMegaplierPrize(baseAmount, multiplier) ==
    Multiplied(baseAmount * multiplier)

(***************************************************************************)
(* SpecPrize: one prize engine function applied to one input.              *)
(***************************************************************************)
\* The multipliers a ticket can carry besides 0 (the handlers admit no other).
LegalMultipliers == {2, 3, 4, 5, 10}

\* Base amounts in cents: every amount of the two paytables and the
\* amounts around the cap.
BaseAmounts ==
    {0, 200, 400, 700, 1000, 10000, 20000, 50000, 1000000, 5000000, 100000000,
     PowerPlayCap - 1, PowerPlayCap, PowerPlayCap + 1}

JackpotDisplays == {"$500 Million", "$20 Million", ""}

PrizeInput(fn, matches, bonus, jackpot, base, multiplier) ==
    [fn |-> fn, whiteBallMatches |-> matches, hasBonus |-> bonus,
     estimatedJackpot |-> jackpot, baseAmount |-> base, multiplier |-> multiplier,
     done |-> FALSE, description |-> "", amount |-> 0, formatted |-> "", exists |-> FALSE]

PrizeInputs ==
    {PrizeInput(fn, 0, FALSE, "", b, m) :
        fn \in {"calculatePowerPlayPrize", "calculateMegaplierPrize"},
        b \in BaseAmounts, m \in LegalMultipliers}
    \cup {PrizeInput(fn, n, h, j, 0, 0) :
        fn \in {"calculatePowerballPrize", "calculateMegaMillionsPrize"},
        n \in 0..5, h \in BOOLEAN, j \in JackpotDisplays}

PrizeInit ==
    /\ LookupIdle
    /\ pz \in PrizeInputs
    /\ tk = Nil
    /\ cm = Nil
    /\ ev = Nil

\* A multiplier function returns.
multiplierReturns(fn, out) ==
    /\ pz.fn = fn
    /\ ~pz.done
    /\ pz' = [pz EXCEPT !.done = TRUE, !.amount = out.amount, !.formatted = out.formatted]
    /\ UNCHANGED <<lookupVars, tk, cm, ev>>

\* A paytable function returns.
paytableReturns(fn, out) ==
    /\ pz.fn = fn
    /\ ~pz.done
    /\ pz' = [pz EXCEPT !.done = TRUE, !.description = out.description,
                        !.amount = out.baseAmount, !.exists = out.exists]
    /\ UNCHANGED <<lookupVars, tk, cm, ev>>

PowerPlayPrize ==
    multiplierReturns("calculatePowerPlayPrize",
                      calculatePowerPlayPrize(pz.baseAmount, pz.multiplier))

MegaplierPrize ==
    multiplierReturns("calculateMegaplierPrize",
                      calculateMegaplierPrize(pz.baseAmount, pz.multiplier))

PowerballPrize ==
    paytableReturns("calculatePowerballPrize",
                    calculatePowerballPrize(pz.whiteBallMatches, pz.hasBonus,
                                            pz.estimatedJackpot))

MegaMillionsPrize ==
    paytableReturns("calculateMegaMillionsPrize",
                    calculateMegaMillionsPrize(pz.whiteBallMatches, pz.hasBonus,
                                               pz.estimatedJackpot))

PrizeNext ==
    \/ PowerPlayPrize
    \/ MegaplierPrize
    \/ PowerballPrize
    \/ MegaMillionsPrize

SpecPrize == PrizeInit /\ [][PrizeNext]_vars

(***************************************************************************)
(* Properties of the prize engine (SpecPrize).                             *)
(***************************************************************************)
PowerPlayReturned == pz # Nil /\ pz.done /\ pz.fn = "calculatePowerPlayPrize"

MegaplierReturned == pz # Nil /\ pz.done /\ pz.fn = "calculateMegaplierPrize"

PaytableReturned ==
    pz # Nil /\ pz.done /\ pz.fn \in {"calculatePowerballPrize", "calculateMegaMillionsPrize"}

\* C4 as stated: a base amount of exactly the threshold with multiplier 10
\* yields twice the base amount, and one unit below the threshold with
\* multiplier 10 yields ten times the base amount.
C4_Original_CapAtThreshold ==
    (PowerPlayReturned /\ pz.multiplier = 10) =>
        /\ (pz.baseAmount = PowerPlayCap => pz.amount = 2 * PowerPlayCap)
        /\ (pz.baseAmount = PowerPlayCap - 1 => pz.amount = 10 * (PowerPlayCap - 1))

\* C4 amended: with multiplier 10, a base amount of exactly the threshold
\* yields ten times the base amount, as does one unit below it; the first base
\* amount that yields twice the base amount is one unit above the threshold.
C4_CapAboveThreshold ==
    (PowerPlayReturned /\ pz.multiplier = 10) =>
        /\ (pz.baseAmount = PowerPlayCap => pz.amount = 10 * PowerPlayCap)
        /\ (pz.baseAmount = PowerPlayCap - 1 => pz.amount = 10 * (PowerPlayCap - 1))
        /\ (pz.baseAmount = PowerPlayCap + 1 => pz.amount = 2 * (PowerPlayCap + 1))

C4_Witness ==
    /\ PowerPlayReturned
    /\ pz.multiplier = 10
    /\ pz.baseAmount = PowerPlayCap
    /\ pz.amount = 150000000

\* C5: for every base amount and every legal multiplier m the Power Play
\* amount is base*2 when m = 10 and the base is above the threshold and
\* base*m otherwise; base 100,000,000 with multiplier 10 gives 200,000,000.
C5_PowerPlayAmount ==
    PowerPlayReturned =>
        /\ pz.multiplier \in LegalMultipliers
        /\ pz.amount = IF pz.multiplier = 10 /\ pz.baseAmount > PowerPlayCap
                       THEN pz.baseAmount * 2
                       ELSE pz.baseAmount * pz.multiplier
        /\ (pz.baseAmount = 100000000 /\ pz.multiplier = 10 => pz.amount = 200000000)

C5_Witness ==
    /\ PowerPlayReturned
    /\ pz.multiplier = 10
    /\ pz.baseAmount = 100000000
    /\ pz.amount = 200000000
    /\ pz.formatted = "$2 Million"

\* The base amounts of the Mega Millions paytable.
MegaMillionsBaseAmounts ==
    {megaMillionsPaytable("")[i].baseAmount : i \in 1..Len(megaMillionsPaytable(""))}

\* C6: for every base amount of the Mega Millions paytable, the lowest
\* non-zero one included, and every legal multiplier m, the Megaplier amount
\* is exactly base*m.
C6_MegaplierLinear ==
    (MegaplierReturned /\ pz.baseAmount \in MegaMillionsBaseAmounts) =>
        /\ pz.multiplier \in LegalMultipliers
        /\ pz.amount = pz.baseAmount * pz.multiplier

C6_Witness ==
    /\ MegaplierReturned
    /\ pz.multiplier = 10
    /\ pz.baseAmount = 100000000
    /\ pz.amount = 1000000000
    /\ pz.formatted = "$10 Million"

\* The text of a (matchCount, bonusMatch) key as the paytables spell it.
KeyText(matchCount, bonusMatch) ==
    ToString(matchCount) \o "+" \o (IF bonusMatch THEN "1" ELSE "0")

PaytableOf(fn, jackpot) ==
    IF fn = "calculatePowerballPrize"
    THEN powerballPrizeTiers(jackpot)
    ELSE megaMillionsPaytable(jackpot)

EntriesFor(tiers, matchCount, bonusMatch) ==
    {i \in 1..Len(tiers) : tiers[i].key = KeyText(matchCount, bonusMatch)}

\* C7: in both games each of the 12 (matchCount, bonusMatch) keys is covered
\* by exactly one paytable entry, the lookup resolves to that entry's
\* description and base amount, and the default branch is not taken.
C7_PaytableTotal ==
    PaytableReturned =>
        LET tiers == PaytableOf(pz.fn, pz.estimatedJackpot)
            entries == EntriesFor(tiers, pz.whiteBallMatches, pz.hasBonus)
        IN  /\ Len(tiers) = 12
            /\ Cardinality(entries) = 1
            /\ pz.exists
            /\ \A i \in entries :
                  /\ pz.description = tiers[i].description
                  /\ pz.amount = tiers[i].baseAmount

C7_Witness ==
    /\ PaytableReturned
    /\ pz.fn = "calculateMegaMillionsPrize"
    /\ pz.whiteBallMatches = 0
    /\ pz.hasBonus
    /\ pz.exists
    /\ pz.description = "$2"
    /\ pz.amount = 200

(***************************************************************************)
(* The ticket evaluator.                                                   *)
(***************************************************************************)
\* Mutant of countMatchingNumbers: numbers compared position by position.
countMatchingNumbers_Positional(ticketNumbers, winningNumbers) ==
    Cardinality({j \in 1..Min(Len(ticketNumbers), Len(winningNumbers)) :
                    ticketNumbers[j] = winningNumbers[j]})

\* Mutant of countMatchingNumbers: the last winning number is not looked up.
countMatchingNumbers_SkipLast(ticketNumbers, winningNumbers) ==
    LET ticketSet == {ticketNumbers[i] : i \in 1..Len(ticketNumbers)}
    IN  Cardinality({j \in 1..(Len(winningNumbers) - 1) : winningNumbers[j] \in ticketSet})

\* ticketSet holds the ticket's numbers; count is raised once for every
\* position of winningNumbers whose number is in ticketSet.
countMatchingNumbers(ticketNumbers, winningNumbers) ==
    LET ticketSet == {ticketNumbers[i] : i \in 1..Len(ticketNumbers)}
    IN  Cardinality({j \in 1..Len(winningNumbers) : winningNumbers[j] \in ticketSet})

TicketResult(isWinner, whiteBallMatches, hasPowerball, prizeDescription, basePrize, powerPlayMultiplier, powerPlayPrize, powerPlayAmount, totalPrize) ==
    [IsWinner |-> isWinner, WhiteBallMatches |-> whiteBallMatches,
     HasPowerball |-> hasPowerball, PrizeDescription |-> prizeDescription,
     BasePrize |-> basePrize, PowerPlayMultiplier |-> powerPlayMultiplier,
     PowerPlayPrize |-> powerPlayPrize, PowerPlayAmount |-> powerPlayAmount,
     TotalPrize |-> totalPrize]

\* var powerPlayPrize string; var powerPlayAmount int
ZeroMultiplied == [formatted |-> "", amount |-> 0]

winningWhiteBalls(winningNumbers) ==
    << winningNumbers.N1, winningNumbers.N2, winningNumbers.N3,
       winningNumbers.N4, winningNumbers.N5 >>

\* Mutant of checkPowerballTicket: the Powerball number is not range-checked.
checkPowerballTicket_NoBonusCheck(ticketNumbers, powerballNumber, winningNumbers, powerPlayMultiplier, estimatedJackpot) ==
    IF Len(ticketNumbers) # 5
    THEN Err("invalid ticket: must have exactly 5 white ball numbers")
    ELSE IF winningNumbers = Nil
    THEN Err("winning numbers cannot be nil")
    ELSE
    LET whiteBallMatches ==
            countMatchingNumbers(ticketNumbers, winningWhiteBalls(winningNumbers))
        hasPowerball == (powerballNumber = winningNumbers.MBall)
        prize == calculatePowerballPrize(whiteBallMatches, hasPowerball, estimatedJackpot)
        powerPlay == IF powerPlayMultiplier > 0
                     THEN calculatePowerPlayPrize(prize.baseAmount, powerPlayMultiplier)
                     ELSE ZeroMultiplied
        isWinner == prize.baseAmount > 0 \/ (whiteBallMatches = 5 /\ hasPowerball)
    IN  Ok(TicketResult(isWinner, whiteBallMatches, hasPowerball, prize.description,
                        prize.baseAmount, powerPlayMultiplier, powerPlay.formatted,
                        powerPlay.amount,
                        IF powerPlayMultiplier > 0 THEN powerPlay.amount
                        ELSE prize.baseAmount))

\* Mutant of checkPowerballTicket: the total is the base amount even when a
\* multiplier was bought.
checkPowerballTicket_TotalIsBase(ticketNumbers, powerballNumber, winningNumbers, powerPlayMultiplier, estimatedJackpot) ==
    IF Len(ticketNumbers) # 5
    THEN Err("invalid ticket: must have exactly 5 white ball numbers")
    ELSE IF powerballNumber < 1 \/ powerballNumber > 26
    THEN Err("invalid Powerball number: must be between 1 and 26")
    ELSE IF winningNumbers = Nil
    THEN Err("winning numbers cannot be nil")
    ELSE
    LET whiteBallMatches ==
            countMatchingNumbers(ticketNumbers, winningWhiteBalls(winningNumbers))
        hasPowerball == (powerballNumber = winningNumbers.MBall)
        prize == calculatePowerballPrize(whiteBallMatches, hasPowerball, estimatedJackpot)
        powerPlay == IF powerPlayMultiplier > 0
                     THEN calculatePowerPlayPrize(prize.baseAmount, powerPlayMultiplier)
                     ELSE ZeroMultiplied
        isWinner == prize.baseAmount > 0 \/ (whiteBallMatches = 5 /\ hasPowerball)
    IN  Ok(TicketResult(isWinner, whiteBallMatches, hasPowerball, prize.description,
                        prize.baseAmount, powerPlayMultiplier, powerPlay.formatted,
                        powerPlay.amount, prize.baseAmount))

checkPowerballTicket(ticketNumbers, powerballNumber, winningNumbers, powerPlayMultiplier, estimatedJackpot) ==
    IF Len(ticketNumbers) # 5
    THEN Err("invalid ticket: must have exactly 5 white ball numbers")
    ELSE IF powerballNumber < 1 \/ powerballNumber > 26
    THEN Err("invalid Powerball number: must be between 1 and 26")
    ELSE IF winningNumbers = Nil
    THEN Err("winning numbers cannot be nil")
    ELSE
    LET whiteBallMatches ==
            countMatchingNumbers(ticketNumbers, winningWhiteBalls(winningNumbers))
        hasPowerball == (powerballNumber = winningNumbers.MBall)
        prize == calculatePowerballPrize(whiteBallMatches, hasPowerball, estimatedJackpot)
        powerPlay == IF powerPlayMultiplier > 0
                     THEN calculatePowerPlayPrize(prize.baseAmount, powerPlayMultiplier)
                     ELSE ZeroMultiplied
        isWinner == prize.baseAmount > 0 \/ (whiteBallMatches = 5 /\ hasPowerball)
    IN  Ok(TicketResult(isWinner, whiteBallMatches, hasPowerball, prize.description,
                        prize.baseAmount, powerPlayMultiplier, powerPlay.formatted,
                        powerPlay.amount,
                        IF powerPlayMultiplier > 0 THEN powerPlay.amount
                        ELSE prize.baseAmount))

\* Mutant of checkMegaMillionsTicket: only a positive base amount wins.
checkMegaMillionsTicket_WinnerByAmount(ticketNumbers, megaBallNumber, winningNumbers, megaplierMultiplier) ==
    IF Len(ticketNumbers) # 5
    THEN Err("invalid ticket: must have exactly 5 white ball numbers")
    ELSE IF megaBallNumber < 1 \/ megaBallNumber > 25
    THEN Err("invalid Mega Ball number: must be between 1 and 25")
    ELSE IF winningNumbers = Nil
    THEN Err("winning numbers cannot be nil")
    ELSE
    LET whiteBallMatches ==
            countMatchingNumbers(ticketNumbers, winningWhiteBalls(winningNumbers))
        hasMegaBall == (megaBallNumber = winningNumbers.MBall)
        prize == calculateMegaMillionsPrize(whiteBallMatches, hasMegaBall, "$500 Million")
        megaplier == IF megaplierMultiplier > 0
                     THEN calculateMegaplierPrize(prize.baseAmount, megaplierMultiplier)
                     ELSE ZeroMultiplied
    IN  Ok(TicketResult(prize.baseAmount > 0, whiteBallMatches, hasMegaBall,
                        prize.description, prize.baseAmount, megaplierMultiplier,
                        megaplier.formatted, megaplier.amount,
                        IF megaplierMultiplier > 0 THEN megaplier.amount
                        ELSE prize.baseAmount))

checkMegaMillionsTicket(ticketNumbers, megaBallNumber, winningNumbers, megaplierMultiplier) ==
    IF Len(ticketNumbers) # 5
    THEN Err("invalid ticket: must have exactly 5 white ball numbers")
    ELSE IF megaBallNumber < 1 \/ megaBallNumber > 25
    THEN Err("invalid Mega Ball number: must be between 1 and 25")
    ELSE IF winningNumbers = Nil
    THEN Err("winning numbers cannot be nil")
    ELSE
    LET whiteBallMatches ==
            countMatchingNumbers(ticketNumbers, winningWhiteBalls(winningNumbers))
        hasMegaBall == (megaBallNumber = winningNumbers.MBall)
        estimatedJackpot == "$500 Million"
        prize == calculateMegaMillionsPrize(whiteBallMatches, hasMegaBall, estimatedJackpot)
        megaplier == IF megaplierMultiplier > 0
                     THEN calculateMegaplierPrize(prize.baseAmount, megaplierMultiplier)
                     ELSE ZeroMultiplied
        isWinner == prize.baseAmount > 0 \/ (whiteBallMatches = 5 /\ hasMegaBall)
    IN  Ok(TicketResult(isWinner, whiteBallMatches, hasMegaBall, prize.description,
                        prize.baseAmount, megaplierMultiplier, megaplier.formatted,
                        megaplier.amount,
                        IF megaplierMultiplier > 0 THEN megaplier.amount
                        ELSE prize.baseAmount))

(***************************************************************************)
(* SpecTicket: one ticket evaluated against one drawing.                   *)
(***************************************************************************)
Drawing(n1, n2, n3, n4, n5, mBall) ==
    WinningNumbers("2025-08-27", n1, n2, n3, n4, n5, mBall, 0, "", "")

\* The drawings a ticket is held against; Nil is the absent drawing.
Drawings == {Drawing(10, 20, 30, 40, 50, 25), Drawing(5, 16, 27, 38, 69, 26), Nil}

\* Ticket number lists: every match count against the first drawing, a
\* reordering, the second drawing's numbers, repeated numbers, numbers out
\* of either game's range, and lists of the wrong length.
TicketNumberLists ==
    { <<10, 20, 30, 40, 50>>, <<50, 40, 30, 20, 10>>, <<10, 20, 30, 40, 60>>,
      <<10, 20, 30, 60, 61>>, <<10, 20, 60, 61, 62>>, <<10, 60, 61, 62, 63>>,
      <<60, 61, 62, 63, 64>>, <<5, 16, 27, 38, 69>>,
      <<10, 10, 20, 30, 40>>, <<10, 10, 10, 10, 10>>,
      <<160, 170, 180, 190, 200>>, <<0, 20, 30, 40, 50>>, <<10, 20, 30, 40, 70>>,
      <<10, 20, 30, 40>>, <<10, 20, 30, 40, 50, 60>>, <<>> }

BonusNumbers == {25, 15, 26, 0, 27}

\* What a request may carry as multiplier: 0 for none.
RequestMultipliers == {0} \cup LegalMultipliers

\* The jackpot display value the caller holds.
CallerJackpots == {"$500 Million", "$20 Million"}

TicketInput(game, ticketNumbers, bonusNumber, winningNumbers, multiplier, jackpot) ==
    [game |-> game, ticketNumbers |-> ticketNumbers, bonusNumber |-> bonusNumber,
     winningNumbers |-> winningNumbers, multiplier |-> multiplier,
     estimatedJackpot |-> jackpot, done |-> FALSE, ret |-> Nil]

TicketInit ==
    /\ LookupIdle
    /\ pz = Nil
    /\ cm = Nil
    /\ ev = Nil
    /\ tk \in {TicketInput(g, t, b, w, m, j) :
                  g \in {"powerball", "megamillions"}, t \in TicketNumberLists,
                  b \in BonusNumbers, w \in Drawings, m \in RequestMultipliers,
                  j \in CallerJackpots}

CheckPowerballTicket ==
    /\ tk.game = "powerball"
    /\ ~tk.done
    /\ tk' = [tk EXCEPT !.done = TRUE,
                        !.ret = checkPowerballTicket(tk.ticketNumbers, tk.bonusNumber,
                                                     tk.winningNumbers, tk.multiplier,
                                                     tk.estimatedJackpot)]
    /\ UNCHANGED <<lookupVars, pz, cm, ev>>

CheckMegaMillionsTicket ==
    /\ tk.game = "megamillions"
    /\ ~tk.done
    /\ tk' = [tk EXCEPT !.done = TRUE,
                        !.ret = checkMegaMillionsTicket(tk.ticketNumbers, tk.bonusNumber,
                                                        tk.winningNumbers, tk.multiplier)]
    /\ UNCHANGED <<lookupVars, pz, cm, ev>>

TicketNext ==
    \/ CheckPowerballTicket
    \/ CheckMegaMillionsTicket

SpecTicket == TicketInit /\ [][TicketNext]_vars

(***************************************************************************)
(* SpecMatch: countMatchingNumbers applied to one pair of number lists.    *)
(***************************************************************************)
\* The numbers the lists are drawn from.
MatchPool == {1, 10, 20, 30, 40, 50, 69}

\* The lists of s in increasing order.
RECURSIVE Sorted(_)
Sorted(s) ==
    IF s = {} THEN <<>>
    ELSE LET m == CHOOSE x \in s : \A y \in s : x <= y
         IN  <<m>> \o Sorted(s \ {m})

Reversed(q) == [i \in 1..Len(q) |-> q[Len(q) + 1 - i]]

\* Every 5-number choice from the pool in increasing order, some of them
\* reversed or rotated, and lists with a repeated number.
MatchLists ==
    LET sorted == {Sorted(s) : s \in {x \in SUBSET MatchPool : Cardinality(x) = 5}}
    IN  sorted
        \cup {Reversed(q) : q \in {r \in sorted : r[1] = 1}}
        \cup {Tail(q) \o <<Head(q)>> : q \in {r \in sorted : r[1] = 10}}
        \cup {<<10, 10, 20, 30, 40>>, <<50, 20, 50, 20, 50>>}

MatchInit ==
    /\ LookupIdle
    /\ pz = Nil
    /\ tk = Nil
    /\ ev = Nil
    /\ cm \in {[ticketNumbers |-> t, winningNumbers |-> w, done |-> FALSE, count |-> 0] :
                  t \in MatchLists, w \in MatchLists}

CountMatchingNumbers ==
    /\ ~cm.done
    /\ cm' = [cm EXCEPT !.done = TRUE,
                        !.count = countMatchingNumbers(cm.ticketNumbers, cm.winningNumbers)]
    /\ UNCHANGED <<lookupVars, pz, tk, ev>>

MatchNext == CountMatchingNumbers

SpecMatch == MatchInit /\ [][MatchNext]_vars

(***************************************************************************)
(* SpecConcurrent: two goroutines check tickets at the same time, each     *)
(* statement by statement, and check the same ticket again.  A goroutine   *)
(* is a record of its call's arguments and locals:                         *)
(*   pc         start, fill (first loop of countMatchingNumbers), count    *)
(*              (second loop), return (back in the evaluator), done        *)
(*   i          the index the running loop is at, from 1                   *)
(*   ticketSet  the keys of the map countMatchingNumbers makes             *)
(*   count      its counter                                                *)
(*   ret        what the evaluator returned                                *)
(*   runs       how many times the ticket has been checked                 *)
(*   first      what the first check returned                              *)
(***************************************************************************)
\* How many times one ticket is checked at most.
MaxRuns == 2

\* The goroutines.
Procs == {"a", "b"}

EvalInput(game, ticketNumbers, bonusNumber, winningNumbers, multiplier, jackpot) ==
    [game |-> game, ticketNumbers |-> ticketNumbers, bonusNumber |-> bonusNumber,
     winningNumbers |-> winningNumbers, multiplier |-> multiplier,
     estimatedJackpot |-> jackpot]

\* Tickets of both games: 5 matches at 10x, 2 matches and the bonus, 3
\* matches and the bonus, repeated numbers, a short ticket, no drawing.
EvalInputs ==
    { EvalInput("powerball", <<10, 20, 30, 40, 50>>, 15, Drawing(10, 20, 30, 40, 50, 25),
                10, "$500 Million"),
      EvalInput("powerball", <<10, 20, 60, 61, 62>>, 25, Drawing(10, 20, 30, 40, 50, 25),
                2, "$20 Million"),
      EvalInput("megamillions", <<10, 20, 30, 60, 61>>, 25, Drawing(10, 20, 30, 40, 50, 25),
                3, "$500 Million"),
      EvalInput("megamillions", <<10, 10, 10, 10, 10>>, 15, Drawing(5, 16, 27, 38, 69, 26),
                0, "$500 Million"),
      EvalInput("powerball", <<10, 20, 30, 40>>, 25, Drawing(10, 20, 30, 40, 50, 25),
                0, "$500 Million"),
      EvalInput("megamillions", <<10, 20, 30, 40, 50>>, 25, Nil, 2, "$500 Million") }

Evaluation(input) ==
    [in |-> input, pc |-> "start", i |-> 0, ticketSet |-> {}, count |-> 0, ret |-> Nil,
     runs |-> 0, first |-> Nil]

ConcurrentInit ==
    /\ LookupIdle
    /\ pz = Nil
    /\ tk = Nil
    /\ cm = Nil
    /\ ev \in [Procs -> {Evaluation(input) : input \in EvalInputs}]

\* Mutant of ticketSetOf: one map shared by every call.
ticketSetOf_Shared(p) == UNION {ev[q].ticketSet : q \in Procs}

\* The map a call of countMatchingNumbers reads and writes: its own.
ticketSetOf(p) == ev[p].ticketSet

\* The validation at the head of checkPowerballTicket: the error, or Nil.
powerballTicketError(ticketNumbers, powerballNumber, winningNumbers) ==
    IF Len(ticketNumbers) # 5
    THEN Err("invalid ticket: must have exactly 5 white ball numbers")
    ELSE IF powerballNumber < 1 \/ powerballNumber > 26
    THEN Err("invalid Powerball number: must be between 1 and 26")
    ELSE IF winningNumbers = Nil
    THEN Err("winning numbers cannot be nil")
    ELSE Nil

\* The validation at the head of checkMegaMillionsTicket.
megaMillionsTicketError(ticketNumbers, megaBallNumber, winningNumbers) ==
    IF Len(ticketNumbers) # 5
    THEN Err("invalid ticket: must have exactly 5 white ball numbers")
    ELSE IF megaBallNumber < 1 \/ megaBallNumber > 25
    THEN Err("invalid Mega Ball number: must be between 1 and 25")
    ELSE IF winningNumbers = Nil
    THEN Err("winning numbers cannot be nil")
    ELSE Nil

\* checkPowerballTicket from the return of countMatchingNumbers on.
powerballResult(whiteBallMatches, input) ==
    LET hasPowerball == (input.bonusNumber = input.winningNumbers.MBall)
        prize == calculatePowerballPrize(whiteBallMatches, hasPowerball, input.estimatedJackpot)
        powerPlay == IF input.multiplier > 0
                     THEN calculatePowerPlayPrize(prize.baseAmount, input.multiplier)
                     ELSE ZeroMultiplied
        isWinner == prize.baseAmount > 0 \/ (whiteBallMatches = 5 /\ hasPowerball)
    IN  Ok(TicketResult(isWinner, whiteBallMatches, hasPowerball, prize.description,
                        prize.baseAmount, input.multiplier, powerPlay.formatted,
                        powerPlay.amount,
                        IF input.multiplier > 0 THEN powerPlay.amount ELSE prize.baseAmount))

\* checkMegaMillionsTicket from the return of countMatchingNumbers on.
megaMillionsResult(whiteBallMatches, input) ==
    LET hasMegaBall == (input.bonusNumber = input.winningNumbers.MBall)
        prize == calculateMegaMillionsPrize(whiteBallMatches, hasMegaBall, "$500 Million")
        megaplier == IF input.multiplier > 0
                     THEN calculateMegaplierPrize(prize.baseAmount, input.multiplier)
                     ELSE ZeroMultiplied
        isWinner == prize.baseAmount > 0 \/ (whiteBallMatches = 5 /\ hasMegaBall)
    IN  Ok(TicketResult(isWinner, whiteBallMatches, hasMegaBall, prize.description,
                        prize.baseAmount, input.multiplier, megaplier.formatted,
                        megaplier.amount,
                        IF input.multiplier > 0 THEN megaplier.amount ELSE prize.baseAmount))

\* The goroutine p returns r: its locals are gone.
returned(p, r) ==
    [ev EXCEPT ![p].pc = "done", ![p].i = 0, ![p].ticketSet = {}, ![p].count = 0,
               ![p].ret = r, ![p].runs = ev[p].runs + 1,
               ![p].first = IF ev[p].runs = 0 THEN r ELSE ev[p].first]

\* The evaluator validates its arguments and calls countMatchingNumbers,
\* which makes its map.
evalEnter(p, error) ==
    /\ ev[p].pc = "start"
    /\ ev' = IF error # Nil
             THEN returned(p, error)
             ELSE [ev EXCEPT ![p].pc = "fill", ![p].i = 1, ![p].ticketSet = {},
                             ![p].count = 0]
    /\ UNCHANGED <<lookupVars, pz, tk, cm>>

checkPowerballTicket_Enter(p) ==
    /\ ev[p].in.game = "powerball"
    /\ evalEnter(p, powerballTicketError(ev[p].in.ticketNumbers, ev[p].in.bonusNumber,
                                         ev[p].in.winningNumbers))

checkMegaMillionsTicket_Enter(p) ==
    /\ ev[p].in.game = "megamillions"
    /\ evalEnter(p, megaMillionsTicketError(ev[p].in.ticketNumbers, ev[p].in.bonusNumber,
                                            ev[p].in.winningNumbers))

\* One iteration of the first loop: ticketSet[num] = true.
countMatchingNumbers_Fill(p) ==
    /\ ev[p].pc = "fill"
    /\ LET last == ev[p].i = Len(ev[p].in.ticketNumbers)
       IN  ev' = [ev EXCEPT ![p].ticketSet = ticketSetOf(p) \cup {ev[p].in.ticketNumbers[ev[p].i]},
                            ![p].i = IF last THEN 1 ELSE ev[p].i + 1,
                            ![p].pc = IF last THEN "count" ELSE "fill"]
    /\ UNCHANGED <<lookupVars, pz, tk, cm>>

\* One iteration of the second loop: if ticketSet[winningNum] { count++ }.
countMatchingNumbers_Count(p) ==
    /\ ev[p].pc = "count"
    /\ LET winning == winningWhiteBalls(ev[p].in.winningNumbers)
           last == ev[p].i = Len(winning)
       IN  ev' = [ev EXCEPT ![p].count = IF winning[ev[p].i] \in ticketSetOf(p)
                                         THEN ev[p].count + 1 ELSE ev[p].count,
                            ![p].i = IF last THEN 0 ELSE ev[p].i + 1,
                            ![p].pc = IF last THEN "return" ELSE "count"]
    /\ UNCHANGED <<lookupVars, pz, tk, cm>>

checkPowerballTicket_Return(p) ==
    /\ ev[p].pc = "return"
    /\ ev[p].in.game = "powerball"
    /\ ev' = returned(p, powerballResult(ev[p].count, ev[p].in))
    /\ UNCHANGED <<lookupVars, pz, tk, cm>>

checkMegaMillionsTicket_Return(p) ==
    /\ ev[p].pc = "return"
    /\ ev[p].in.game = "megamillions"
    /\ ev' = returned(p, megaMillionsResult(ev[p].count, ev[p].in))
    /\ UNCHANGED <<lookupVars, pz, tk, cm>>

\* The same ticket is checked again.
evalAgain(p) ==
    /\ ev[p].pc = "done"
    /\ ev[p].runs < MaxRuns
    /\ ev' = [ev EXCEPT ![p].pc = "start", ![p].ret = Nil]
    /\ UNCHANGED <<lookupVars, pz, tk, cm>>

ConcurrentNext ==
    \E p \in Procs :
        \/ checkPowerballTicket_Enter(p)
        \/ checkMegaMillionsTicket_Enter(p)
        \/ countMatchingNumbers_Fill(p)
        \/ countMatchingNumbers_Count(p)
        \/ checkPowerballTicket_Return(p)
        \/ checkMegaMillionsTicket_Return(p)
        \/ evalAgain(p)

SpecConcurrent == ConcurrentInit /\ [][ConcurrentNext]_vars

(***************************************************************************)
(* Properties of the ticket evaluator (SpecTicket, SpecMatch).             *)
(***************************************************************************)
TicketEvaluated == tk # Nil /\ tk.done

\* The evaluator returned a TicketResult for the jackpot key.
JackpotResult ==
    /\ TicketEvaluated
    /\ tk.ret.ok
    /\ tk.ret.val.WhiteBallMatches = 5
    /\ tk.ret.val.HasPowerball

\* C8 as stated: in both games a ticket matching all 5 primary numbers and
\* the bonus number gets the jackpot display value its caller holds as the
\* prize description, whatever that value is, and base amount 0.
C8_JackpotDescriptionFromCaller ==
    JackpotResult =>
        /\ tk.ret.val.PrizeDescription = tk.estimatedJackpot
        /\ tk.ret.val.BasePrize = 0

Elements(q) == {q[i] : i \in 1..Len(q)}

\* The largest primary number of a game.
PrimaryMax(game) == IF game = "powerball" THEN 69 ELSE 70

Distinct(q) == Cardinality(Elements(q)) = Len(q)

\* A ticket of 5 primary numbers that repeats a number or has a number
\* outside the game's range.
MalformedPrimaries ==
    /\ Len(tk.ticketNumbers) = 5
    /\ \/ ~Distinct(tk.ticketNumbers)
       \/ \E i \in 1..5 : tk.ticketNumbers[i] < 1 \/ tk.ticketNumbers[i] > PrimaryMax(tk.game)

\* C10 as stated: the evaluator answers every ticket whose 5 primary numbers
\* are not mutually distinct, or one of which is outside [1, primaryMax],
\* with an error and no TicketResult.
C10_MalformedPrimariesRejected ==
    (TicketEvaluated /\ MalformedPrimaries) =>
        /\ ~tk.ret.ok
        /\ tk.ret.val = Nil

\* A valid list of primary numbers: 5 distinct numbers of the range.
ValidPrimaries(q) ==
    /\ Len(q) = 5
    /\ Distinct(q)
    /\ \A i \in 1..5 : q[i] \in 1..69

Reordered(q, p) == [i \in 1..Len(q) |-> q[p[i]]]

\* C9: for valid tickets and drawings the match count is the size of the
\* intersection of the two number sets, lies in 0..5, and is the same for
\* every reordering of the ticket numbers and of the drawing numbers.
C9_MatchCountIsIntersection ==
    (cm # Nil /\ cm.done /\ ValidPrimaries(cm.ticketNumbers)
       /\ ValidPrimaries(cm.winningNumbers)) =>
        /\ cm.count = Cardinality(Elements(cm.ticketNumbers) \cap Elements(cm.winningNumbers))
        /\ cm.count \in 0..5
        /\ \A p \in Permutations(1..5) :
              /\ countMatchingNumbers(Reordered(cm.ticketNumbers, p), cm.winningNumbers)
                    = cm.count
              /\ countMatchingNumbers(cm.ticketNumbers, Reordered(cm.winningNumbers, p))
                    = cm.count

C9_Witness ==
    /\ cm # Nil
    /\ cm.done
    /\ cm.ticketNumbers = <<40, 30, 20, 10, 1>>
    /\ cm.winningNumbers = <<10, 20, 30, 50, 69>>
    /\ cm.count = 3

(***************************************************************************)
(* Further properties of the ticket evaluator (SpecTicket).                *)
(***************************************************************************)
\* The largest bonus number the game's evaluator admits.
BonusMax(game) == IF game = "powerball" THEN 26 ELSE 25

\* What the evaluator validates: 5 primary numbers, a bonus number of the
\* game's range, a drawing.
PassesValidation ==
    /\ Len(tk.ticketNumbers) = 5
    /\ tk.bonusNumber \in 1..BonusMax(tk.game)
    /\ tk.winningNumbers # Nil

\* C11: the evaluator returns an error and no TicketResult exactly when the
\* ticket has not 5 primary numbers, its bonus number is outside the game's
\* range, or the drawing is absent; a shorter or longer ticket is never
\* evaluated as if it had 5 numbers; otherwise it returns a TicketResult and
\* no error.
C11_ValidationErrors ==
    TicketEvaluated =>
        /\ ~PassesValidation => (~tk.ret.ok /\ tk.ret.val = Nil /\ tk.ret.msg # "")
        /\ PassesValidation => (tk.ret.ok /\ tk.ret.val # Nil /\ tk.ret.msg = "")
        /\ tk.ret.ok => Len(tk.ticketNumbers) = 5

C11_Witness ==
    /\ TicketEvaluated
    /\ tk.game = "powerball"
    /\ tk.ticketNumbers = <<10, 20, 30, 40, 50>>
    /\ tk.bonusNumber = 27
    /\ tk.winningNumbers # Nil
    /\ ~tk.ret.ok
    /\ tk.ret.msg = "invalid Powerball number: must be between 1 and 26"

\* C12: in every TicketResult the winner flag is (base amount > 0) or
\* (5 matches and the bonus match), and a jackpot result is a winner with
\* base amount 0.
C12_WinnerFlag ==
    (TicketEvaluated /\ tk.ret.ok) =>
        LET r == tk.ret.val
        IN  /\ r.IsWinner <=> (r.BasePrize > 0 \/ (r.WhiteBallMatches = 5 /\ r.HasPowerball))
            /\ (r.WhiteBallMatches = 5 /\ r.HasPowerball) => (r.IsWinner /\ r.BasePrize = 0)

C12_Witness ==
    /\ JackpotResult
    /\ tk.game = "megamillions"
    /\ tk.ret.val.BasePrize = 0
    /\ tk.ret.val.IsWinner

\* The ticket repeats the drawing: same primary numbers in the same order,
\* same bonus number.
TicketIsDrawing ==
    /\ tk.winningNumbers # Nil
    /\ tk.ticketNumbers = winningWhiteBalls(tk.winningNumbers)
    /\ tk.bonusNumber = tk.winningNumbers.MBall

\* C13: a ticket identical to the drawing, the drawing's bonus number being
\* one of the game, is evaluated to 5 matches, bonus match and winner, for
\* every requested multiplier.
C13_RoundTrip ==
    (TicketEvaluated /\ TicketIsDrawing /\ tk.bonusNumber \in 1..BonusMax(tk.game)) =>
        /\ tk.ret.ok
        /\ tk.ret.val.WhiteBallMatches = 5
        /\ tk.ret.val.HasPowerball
        /\ tk.ret.val.IsWinner

C13_Witness ==
    /\ TicketEvaluated
    /\ TicketIsDrawing
    /\ tk.game = "powerball"
    /\ tk.ticketNumbers = <<10, 20, 30, 40, 50>>
    /\ tk.bonusNumber = 25
    /\ tk.multiplier = 0
    /\ tk.ret.ok
    /\ tk.ret.val.WhiteBallMatches = 5
    /\ tk.ret.val.HasPowerball
    /\ tk.ret.val.IsWinner
    /\ tk.ret.val.PrizeDescription = tk.estimatedJackpot

\* The multiplier a game applies to a base amount for a requested one.
EffectiveMultiplier(game, baseAmount, multiplier) ==
    IF game = "powerball" /\ multiplier = 10 /\ baseAmount > PowerPlayCap
    THEN 2
    ELSE multiplier

\* C14: the total prize of a TicketResult is the base amount when no
\* multiplier was requested and base amount times the effective multiplier
\* when one was; Powerball 4 matches + bonus with multiplier 4 totals
\* 20,000,000.
C14_TotalPrize ==
    (TicketEvaluated /\ tk.ret.ok) =>
        LET r == tk.ret.val
        IN  /\ tk.multiplier = 0 => r.TotalPrize = r.BasePrize
            /\ tk.multiplier > 0 =>
                  r.TotalPrize = r.BasePrize * EffectiveMultiplier(tk.game, r.BasePrize, tk.multiplier)
            /\ (tk.game = "powerball" /\ r.WhiteBallMatches = 4 /\ r.HasPowerball
                  /\ tk.multiplier = 4) =>
                  (r.BasePrize = 5000000 /\ r.PrizeDescription = "$50,000"
                     /\ r.TotalPrize = 20000000)

C14_Witness ==
    /\ TicketEvaluated
    /\ tk.ret.ok
    /\ tk.game = "powerball"
    /\ tk.ticketNumbers = <<10, 20, 30, 40, 60>>
    /\ tk.bonusNumber = 25
    /\ tk.multiplier = 4
    /\ tk.ret.val.PrizeDescription = "$50,000"
    /\ tk.ret.val.TotalPrize = 20000000

\* The (matchCount, bonusMatch) key of a TicketResult.
ResultKey == KeyText(tk.ret.val.WhiteBallMatches, tk.ret.val.HasPowerball)

\* A result that is no prize: base amount 0 and no winner.
NoPrizeResult == tk.ret.val.BasePrize = 0 /\ ~tk.ret.val.IsWinner

\* C15 as stated: 2 matches without bonus and 1 match without bonus are no
\* prize (base amount 0, no winner), and no other key of the 12 is.
C15_Original_TwoNoPrizeKeys ==
    (TicketEvaluated /\ tk.ret.ok) =>
        (NoPrizeResult <=> ResultKey \in {"2+0", "1+0"})

\* C15 amended: the keys that are no prize (base amount 0, description "$0",
\* no winner) are three of the 12: 2 matches without bonus, 1 match without
\* bonus and 0 matches without bonus.
C15_ThreeNoPrizeKeys ==
    (TicketEvaluated /\ tk.ret.ok) =>
        /\ NoPrizeResult <=> ResultKey \in {"2+0", "1+0", "0+0"}
        /\ NoPrizeResult => tk.ret.val.PrizeDescription = "$0"

C15_Witness ==
    /\ TicketEvaluated
    /\ tk.ret.ok
    /\ tk.ret.val.WhiteBallMatches = 0
    /\ ~tk.ret.val.HasPowerball
    /\ tk.ret.val.BasePrize = 0
    /\ tk.ret.val.PrizeDescription = "$0"
    /\ ~tk.ret.val.IsWinner

(***************************************************************************)
(* Further properties of the lookup (Spec).                                *)
(***************************************************************************)
\* The request went down the scraped page path.
OnPagePath == Len(calls) >= 1 /\ calls[1].endpoint = PageEndpoint

\* A page exchange that delivered a document.
PageFetched(r) == r.net /\ r.status = 200 /\ r.readOk /\ (r.gzip => r.gzipOk)

\* The winning-numbers lookup of the scraped game is over and had fetched a
\* document.
ScrapedNumbers ==
    /\ Finished
    /\ op = "numbers"
    /\ OnPagePath
    /\ Len(replies) = 1
    /\ PageFetched(replies[1])

\* 5 white balls and the powerball can be extracted from the document.
Extractable(page) == Len(page.whites) >= 5 /\ Len(page.powerball) >= 1

\* C16: with a fetched document the scraped game's fetch succeeds exactly
\* when at least 5 primary numbers and the bonus number can be extracted;
\* then a missing multiplier or date is replaced by a default (-1, the
\* current time) and there is a Drawing; otherwise the result is a failure
\* with an error and no Drawing.
C16_ScrapeSucceedsIffExtractable ==
    ScrapedNumbers =>
        LET page == replies[1].page
        IN  /\ response.err = Nil
            /\ response.resp.Success <=> Extractable(page)
            /\ Extractable(page) =>
                  /\ response.resp.Payload # Nil
                  /\ response.resp.Error = ""
                  /\ page.multiplier = <<>> => response.resp.Payload.Megaplier = -1
                  /\ page.dateHdr = <<>> => response.resp.Payload.PlayDate = "NOW"
            /\ ~Extractable(page) =>
                  /\ response.resp.Payload = Nil
                  /\ response.resp.Error # ""

C16_Witness ==
    /\ ScrapedNumbers
    /\ replies[1].page.multiplier = <<>>
    /\ replies[1].page.dateHdr = <<>>
    /\ response.resp.Success
    /\ response.resp.Payload.N5 = 69
    /\ response.resp.Payload.MBall = 5
    /\ response.resp.Payload.Megaplier = -1
    /\ response.resp.Payload.PlayDate = "NOW"

\* The game a finished lookup went to.
GameOfPath == IF OnApiPath THEN "megamillions" ELSE "powerball"

\* 5 distinct primary numbers and a bonus number, all of the game's ranges.
ValidDrawing(w, game) ==
    /\ Distinct(winningWhiteBalls(w))
    /\ \A i \in 1..5 : winningWhiteBalls(w)[i] \in 1..PrimaryMax(game)
    /\ w.MBall \in 1..BonusMax(game)

\* C17 as stated: every Drawing a successful fetch returns, on every path,
\* has 5 mutually distinct primary numbers of the game's range and a bonus
\* number of the game's range, whatever the upstream returned.
C17_ReturnedDrawingValid ==
    (Finished /\ op = "numbers" /\ response.resp.Success) =>
        ValidDrawing(response.resp.Payload, GameOfPath)

\* The error messages of the winning-numbers lookup, by class.
InvalidDateErrors == {"Invalid date format. Please use MM/DD/YYYY format. Error: <parse>"}

UnsupportedGameErrors ==
    {"Unsupported lottery type. Currently only 'megamillions' and 'powerball' are supported."}

UnreachableErrors ==
    {"Failed to get drawing data: failed to make HTTP request: <transport>",
     "Failed to get drawing data: failed to read response body: <io>",
     "Failed to scrape Powerball data: failed to make HTTP request: <transport>",
     "Failed to scrape Powerball data: failed to read response body: <io>",
     "Failed to scrape Powerball data: failed to read gzipped response body: <io>"}

NonSuccessStatusErrors ==
    {"Failed to get drawing data: API returned non-OK status: 503 - <body>",
     "Failed to scrape Powerball data: Powerball website returned non-OK status: 404"}

NoDataErrors ==
    {"No drawing data found for the specified date",
     "Failed to scrape Powerball data: failed to parse Powerball HTML: could not find all 5 white ball numbers, found 0",
     "Failed to scrape Powerball data: failed to parse Powerball HTML: could not find all 5 white ball numbers, found 4",
     "Failed to scrape Powerball data: failed to parse Powerball HTML: could not find Powerball number"}

MalformedPayloadErrors ==
    {"Failed to get drawing data: failed to unmarshal outer response: <json>",
     "Failed to get drawing data: failed to unmarshal drawing data: <json>",
     "Failed to scrape Powerball data: failed to create gzip reader: <gzip>"}

ClassifiedErrors ==
    InvalidDateErrors \cup UnsupportedGameErrors \cup UnreachableErrors
    \cup NonSuccessStatusErrors \cup NoDataErrors \cup MalformedPayloadErrors

\* C18: every winning-numbers lookup ends with a nil Go error and either a
\* success carrying a Drawing and an empty error text, or a failure carrying
\* no Drawing and an error text of one of the six classes; an input that is
\* refused is of the input classes and an upstream that did not connect is
\* of the unreachable class.
C18_TwoOutcomes ==
    (Finished /\ op = "numbers") =>
        /\ response.err = Nil
        /\ response.resp # Nil
        /\ \/ /\ response.resp.Success
              /\ response.resp.Payload # Nil
              /\ response.resp.Error = ""
           \/ /\ ~response.resp.Success
              /\ response.resp.Payload = Nil
              /\ response.resp.Error \in ClassifiedErrors
        /\ calls = <<>> => response.resp.Error \in InvalidDateErrors \cup UnsupportedGameErrors
        /\ (Len(replies) = 1 /\ ~replies[1].net) => response.resp.Error \in UnreachableErrors

C18_Witness ==
    /\ pc = "replied"
    /\ op = "numbers"
    /\ OnPagePath
    /\ Len(replies) = 1
    /\ replies[1].net
    /\ replies[1].status = 404
    /\ response.err = Nil
    /\ ~response.resp.Success
    /\ response.resp.Payload = Nil
    /\ response.resp.Error \in NonSuccessStatusErrors
    /\ httpStatus = 400

\* C19 as stated: in the prize-amounts lookup of the two-call game, whenever
\* Call 1 succeeded with at least one draw and Call 2 failed, the lookup
\* still returns a success.
C19_PrizeLookupDegrades ==
    (/\ Finished
     /\ op = "prizes"
     /\ OnApiPath
     /\ Len(replies) = 2
     /\ ReplySucceeded(replies[1])
     /\ Len(replies[1].value) >= 1
     /\ ~ReplySucceeded(replies[2]))
    => /\ response.err = Nil
       /\ response.resp.Success

\* The first upstream exchange failed in transport or with a status code.
TransportOrStatusFailure ==
    /\ Len(replies) = 1
    /\ \/ ~replies[1].net
       \/ replies[1].status # 200
       \/ (OnApiPath /\ ~replies[1].readOk)
       \/ (OnPagePath /\ (replies[1].gzip => replies[1].gzipOk) /\ ~replies[1].readOk)

\* The upstream answered, and the data is not in the answer: no drawing in
\* the list, or no 5 white balls and powerball in the page.
UpstreamDataMissing ==
    /\ Len(replies) = 1
    /\ \/ OnApiPath /\ ReplySucceeded(replies[1]) /\ replies[1].value = <<>>
       \/ OnPagePath /\ PageFetched(replies[1]) /\ ~Extractable(replies[1].page)

\* C20: the failure result of a winning-numbers lookup whose upstream data
\* is missing carries an error text of the no-data class, the failure result
\* of a transport or status failure carries one of the unreachable or
\* non-success classes, and no text is of both: the two results differ.
C20_NoDataDistinct ==
    (Finished /\ op = "numbers") =>
        /\ UpstreamDataMissing =>
              /\ ~response.resp.Success
              /\ response.resp.Error \in NoDataErrors
              /\ response.resp.Error \notin UnreachableErrors \cup NonSuccessStatusErrors
        /\ TransportOrStatusFailure =>
              /\ ~response.resp.Success
              /\ response.resp.Error \in UnreachableErrors \cup NonSuccessStatusErrors
              /\ response.resp.Error \notin NoDataErrors
        /\ NoDataErrors \cap (UnreachableErrors \cup NonSuccessStatusErrors) = {}

C20_Witness ==
    /\ pc = "replied"
    /\ op = "numbers"
    /\ OnPagePath
    /\ UpstreamDataMissing
    /\ Len(replies[1].page.whites) = 4
    /\ ~response.resp.Success
    /\ response.resp.Error \in NoDataErrors
    /\ httpStatus = 400

(***************************************************************************)
(* Order and number of the upstream calls (Spec, SpecLive).                *)
(***************************************************************************)
\* The calls issued and not yet answered.
InFlight == Len(calls) - Len(replies)

\* C23: on the JSON API path at most one call is in flight; Call 2 is only
\* issued when Call 1 has been answered successfully with at least one
\* draw, and it carries the PlayDateTicks of that answer's first entry.
C23_CallsOrdered ==
    OnApiPath =>
        /\ InFlight \in {0, 1}
        /\ Len(calls) <= 2
        /\ Len(calls) = 2 =>
              /\ Len(replies) >= 1
              /\ ReplySucceeded(replies[1])
              /\ Len(replies[1].value) >= 1
              /\ calls[2].endpoint = DetailEndpoint
              /\ calls[2].PlayDateTicks = replies[1].value[1].PlayDateTicks

C23_Witness ==
    /\ pc = "call2"
    /\ OnApiPath
    /\ Len(calls) = 2
    /\ Len(replies) = 1
    /\ replies[1].value[1].UpdatedBy = "PAGING_IMPORT"
    /\ calls[2].PlayDateTicks = 102

\* The lookup applies fairly: a handler that can take a step takes it, and
\* every upstream call returns (the HTTP client gives up after 30 seconds).
SpecLive == Spec /\ WF_vars(Next)

\* No endpoint is called twice and every answer belongs to a call.
SingleAttempt ==
    /\ \A i, j \in 1..Len(calls) : calls[i].endpoint = calls[j].endpoint => i = j
    /\ Len(calls) <= 2
    /\ Len(replies) <= Len(calls)
    /\ OnPagePath => Len(calls) = 1
    /\ pc = "replied" => (response # Nil /\ Len(replies) = Len(calls))

\* C24: a request calls each upstream endpoint at most once, a failed call
\* is not issued again, and every request is eventually answered with one
\* result.
C24_SingleAttemptThenReturn ==
    /\ []SingleAttempt
    /\ <>(pc = "replied")
    /\ [](op # "none" => <>(pc = "replied" /\ response # Nil))

C24_Witness ==
    /\ pc = "replied"
    /\ OnPagePath
    /\ Len(calls) = 1
    /\ Len(replies) = 1
    /\ ~replies[1].net
    /\ ~response.resp.Success

\* The fields of a drawing a WinningNumbers carries.
DrawingFields ==
    {"PlayDate", "N1", "N2", "N3", "N4", "N5", "MBall", "Megaplier", "UpdatedBy",
     "UpdatedTime"}

\* C30: when Call 1 answers more than one draw, Call 2 carries the first
\* entry's identifier and the result is made of the first entry and of
\* Call 2's answer alone: the fallback drawing is the first entry, the
\* detailed drawing is Call 2's, and the prize data is dated by the first
\* entry.
C30_OnlyFirstEntry ==
    (/\ Finished
     /\ OnApiPath
     /\ Len(replies) >= 1
     /\ ReplySucceeded(replies[1])
     /\ Len(replies[1].value) > 1)
    => LET first == replies[1].value[1]
       IN  /\ Len(calls) = 2
           /\ Len(replies) = 2
           /\ calls[2].PlayDateTicks = first.PlayDateTicks
           /\ (op = "numbers" /\ ~ReplySucceeded(replies[2])) =>
                 /\ response.resp.Success
                 /\ \A f \in DrawingFields : response.resp.Payload[f] = first[f]
           /\ (op = "numbers" /\ ReplySucceeded(replies[2])) =>
                 /\ response.resp.Success
                 /\ \A f \in DrawingFields :
                       response.resp.Payload[f] = replies[2].value.Drawing[f]
           /\ (op = "prizes" /\ ReplySucceeded(replies[2])) =>
                 /\ response.resp.Success
                 /\ response.resp.Payload.PlayDate = first.PlayDate
           /\ (op = "prizes" /\ ~ReplySucceeded(replies[2])) => ~response.resp.Success

C30_Witness ==
    /\ pc = "done"
    /\ op = "numbers"
    /\ OnApiPath
    /\ Len(replies) = 2
    /\ ReplySucceeded(replies[1])
    /\ Len(replies[1].value) = 2
    /\ replies[1].value[1].UpdatedBy = "PAGING_IMPORT"
    /\ replies[1].value[2].UpdatedBy = "SERVICE"
    /\ ~replies[2].net
    /\ response.resp.Success
    /\ response.resp.Payload.UpdatedBy = "PAGING_IMPORT"
    /\ response.resp.Payload.N5 = 70

(***************************************************************************)
(* Jackpot display and published Megaplier amounts of the JSON API game    *)
(* (Spec).                                                                 *)
(***************************************************************************)
\* A prize lookup of the JSON API game whose two calls succeeded.
PrizeTableReturned ==
    /\ Finished
    /\ op = "prizes"
    /\ OnApiPath
    /\ Len(replies) = 2
    /\ ReplySucceeded(replies[2])
    /\ response.resp.Success

\* text shows the amount n in its bucket: whole millions from 1,000,000 on,
\* whole thousands from 1,000 on, the number itself below.
Bucketed(n, text) ==
    IF n >= 1000000
    THEN \E k \in {n \div 1000000, n \div 1000000 + 1} : text = "$" \o ToString(k) \o " Million"
    ELSE IF n >= 1000
    THEN \E k \in {n \div 1000, n \div 1000 + 1} : text = "$" \o ToString(k) \o " Thousand"
    ELSE text = "$" \o ToString(n)

\* C27: the estimated jackpot of a prize lookup follows the shape of the
\* Jackpot field: an object with a numeric prize pool shows the pool's
\* bucketed amount, a number its bucketed amount, a string itself, nil or an
\* object without a prize pool "Unknown"; 302,000,000 shows as
\* "$302 Million", 1,000 as "$1 Thousand" and 999 as "$999".
C27_JackpotResolution ==
    PrizeTableReturned =>
        LET jackpot == replies[2].value.Jackpot
            text == response.resp.Payload.EstimatedJackpot
        IN  /\ jackpot = Nil => text = "Unknown"
            /\ jackpot # Nil =>
                  /\ jackpot.type = "string" => text = jackpot.str
                  /\ jackpot.type = "float64" => Bucketed(jackpot.num, text)
                  /\ (jackpot.type = "map" /\ jackpot.pool = Absent) => text = "Unknown"
                  /\ (jackpot.type = "map" /\ jackpot.pool # Absent) =>
                        Bucketed(jackpot.pool.num, text)
                  /\ jackpot = JFloat(302000000) => text = "$302 Million"
                  /\ jackpot = JFloat(1000000) => text = "$1 Million"
                  /\ jackpot = JFloat(1000) => text = "$1 Thousand"
                  /\ jackpot = JFloat(999) => text = "$999"

C27_Witness ==
    /\ PrizeTableReturned
    /\ replies[2].value.Jackpot = JMap(JFloat(250000), Absent)
    /\ response.resp.Payload.EstimatedJackpot = "$250 Thousand"

\* The keys of the non-jackpot tiers of the published table, in its order.
PublishedKeys ==
    << <<5, FALSE>>, <<4, TRUE>>, <<4, FALSE>>, <<3, TRUE>>, <<3, FALSE>>, <<2, TRUE>>,
       <<1, TRUE>>, <<0, TRUE>> >>

\* The amount in whole dollars the prize engine computes for a key and a
\* multiplier.
EngineMegaplierDollars(key, m) ==
    calculateMegaplierPrize(calculateMegaMillionsPrize(key[1], key[2], "").baseAmount, m).amount
        \div 100

\* C29 as stated: in the prize table a lookup returns, the Megaplier amount
\* of each of the 8 non-jackpot tiers and each multiplier is the amount the
\* prize engine computes for that tier and multiplier, in whole dollars.
C29_PublishedMegaplierIsEngine ==
    PrizeTableReturned =>
        \A i \in 1..8 : \A m \in LegalMultipliers :
            /\ response.resp.Payload.PrizeTiers[i + 1].Match = KeyText(PublishedKeys[i][1], PublishedKeys[i][2])
            /\ response.resp.Payload.PrizeTiers[i + 1].MegaplierPrize[m]
                  = EngineMegaplierDollars(PublishedKeys[i], m)

(***************************************************************************)
(* The multiplier a TicketResult reports, and the advertised Power Play    *)
(* amounts (SpecTicket).                                                   *)
(***************************************************************************)
\* C28 as stated: for every ticket evaluated with a multiplier above 0, the
\* total prize is the base prize times the multiplier the same result
\* reports.
C28_ReportedMultiplierApplied ==
    (TicketEvaluated /\ tk.ret.ok /\ tk.multiplier > 0) =>
        tk.ret.val.TotalPrize = tk.ret.val.BasePrize * tk.ret.val.PowerPlayMultiplier

\* n with a comma between groups of three digits.
RECURSIVE commaGrouped(_)
commaGrouped(n) ==
    IF n < 1000 THEN ToString(n)
    ELSE LET g == n % 1000
         IN  commaGrouped(n \div 1000) \o ","
             \o (IF g < 10 THEN "00" ELSE IF g < 100 THEN "0" ELSE "") \o ToString(g)

\* The text advertising the amounts f[2] .. f[10], in whole dollars.
exampleText(f) ==
    "2x: $" \o commaGrouped(f[2]) \o ", 3x: $" \o commaGrouped(f[3])
    \o ", 4x: $" \o commaGrouped(f[4]) \o ", 5x: $" \o commaGrouped(f[5])
    \o ", 10x: $" \o commaGrouped(f[10])

\* The advertised amounts in whole dollars, by key: every multiplier times
\* the tier's prize.
AdvertisedKeys == {"5+0", "4+1", "4+0", "3+1", "3+0", "2+1", "1+1", "0+1"}

AdvertisedFigures ==
    [key \in AdvertisedKeys |->
        LET prize == CASE key = "5+0" -> 1000000
                       [] key = "4+1" -> 50000
                       [] key \in {"4+0", "3+1"} -> 100
                       [] key \in {"3+0", "2+1"} -> 7
                       [] key \in {"1+1", "0+1"} -> 4
        IN  [m \in LegalMultipliers |-> prize * m]]

\* The advertised amounts are the texts of the demo endpoint and of the
\* placeholder paytable, tier by tier.
AdvertisedAsPublished ==
    \A i \in 2..9 :
        /\ placeholderTiers[i].Match \in AdvertisedKeys
        /\ placeholderTiers[i].PowerPlayPrize = exampleText(AdvertisedFigures[placeholderTiers[i].Match])
        /\ powerballDemoPrizeTiers[i].power_play_example = placeholderTiers[i].PowerPlayPrize
        /\ powerballDemoPrizeTiers[i].prize = placeholderTiers[i].PowerballPrize

\* C22 as stated: the total the ticket evaluator computes for a non-jackpot
\* tier and a Power Play multiplier is the amount the demo endpoint and the
\* placeholder paytable advertise for that tier and multiplier; 5 matches
\* without bonus at 10x are worth $10,000,000.
C22_EvaluatorMatchesAdvertised ==
    /\ AdvertisedAsPublished
    /\ (/\ TicketEvaluated
        /\ tk.game = "powerball"
        /\ tk.ret.ok
        /\ tk.multiplier \in LegalMultipliers
        /\ ResultKey \in AdvertisedKeys)
       => tk.ret.val.TotalPrize = 100 * AdvertisedFigures[ResultKey][tk.multiplier]

(***************************************************************************)
(* The scraped prize table (Spec).                                         *)
(***************************************************************************)
\* A prize lookup of the scraped game is over and had fetched a document.
ScrapedPrizes ==
    /\ Finished
    /\ op = "prizes"
    /\ OnPagePath
    /\ Len(replies) = 1
    /\ PageFetched(replies[1])

CanonicalPrizes ==
    <<"Grand Prize", "$1,000,000", "$50,000", "$100", "$100", "$7", "$7", "$4", "$4">>

CanonicalMatches ==
    <<"5+1 (Jackpot)", "5+0", "4+1", "4+0", "3+1", "3+0", "2+1", "1+1", "0+1">>

\* The page's table has the 9 canonical rows in canonical order.
CanonicalTable(cells) ==
    /\ labelGroup(cells, "Powerball Prize") = CanonicalPrizes
    /\ Len(labelGroup(cells, "Powerball Winners")) = 9
    /\ Len(labelGroup(cells, "Power Play Winners")) = 9
    /\ Len(labelGroup(cells, "Power Play Prize")) = 9

\* C26: a page whose table has the 9 canonical rows in canonical order gets
\* the 9 canonical match labels in that order, pairwise distinct, each row
\* keeping its prize: rows of the same prize are told apart by position.
C26_CanonicalRowsLabelled ==
    (ScrapedPrizes /\ CanonicalTable(replies[1].page.cells)) =>
        /\ response.resp.Success
        /\ Len(response.resp.Payload.PrizeTiers) = 9
        /\ \A i \in 1..9 :
              /\ response.resp.Payload.PrizeTiers[i].Match = CanonicalMatches[i]
              /\ response.resp.Payload.PrizeTiers[i].PowerballPrize = CanonicalPrizes[i]
        /\ \A i, j \in 1..9 :
              response.resp.Payload.PrizeTiers[i].Match
                 = response.resp.Payload.PrizeTiers[j].Match => i = j

C26_Witness ==
    /\ ScrapedPrizes
    /\ CanonicalTable(replies[1].page.cells)
    /\ response.resp.Success
    /\ response.resp.Payload.PrizeTiers[5].Match = "3+1"
    /\ response.resp.Payload.PrizeTiers[5].PowerballWinners = 1204

\* The rows the positional pattern of the earlier extractPowerballPrizeTiers
\* finds, left to right without overlap: four consecutive cells, whatever
\* their attributes, whose first and third texts are numbers and whose
\* second and fourth are not empty.
RECURSIVE positionalRows(_)
positionalRows(cells) ==
    IF Len(cells) < 4 THEN <<>>
    ELSE IF /\ strconvAtoi(TrimSpace(cells[1].text)).ok
            /\ TrimSpace(cells[2].text) # ""
            /\ strconvAtoi(TrimSpace(cells[3].text)).ok
            /\ TrimSpace(cells[4].text) # ""
         THEN << [winners |-> strconvAtoi(TrimSpace(cells[1].text)).val,
                  prize |-> TrimSpace(cells[2].text),
                  ppWinners |-> strconvAtoi(TrimSpace(cells[3].text)).val,
                  ppPrize |-> TrimSpace(cells[4].text)] >>
              \o positionalRows(SubSeq(cells, 5, Len(cells)))
         ELSE positionalRows(SubSeq(cells, 2, Len(cells)))

\* The data-label pattern yields tiers: each of the four labels has a cell.
PrimaryYields(cells) ==
    \A label \in {"Powerball Winners", "Powerball Prize", "Power Play Winners", "Power Play Prize"} :
        Len(labelGroup(cells, label)) > 0

\* The tiers are the 9 canonical ones, in order, without winners.
CanonicalPlaceholder(tiers) ==
    /\ Len(tiers) = 9
    /\ \A i \in 1..9 :
          /\ tiers[i].Match = CanonicalMatches[i]
          /\ tiers[i].PowerballWinners = 0
          /\ tiers[i].PowerPlayWinners = 0

\* C25 as stated: the prize tiers of a fetched page are never an error nor
\* empty; they come from the data-label pattern when it yields a tier, else
\* from the positional pattern when that yields a row, and are the 9
\* canonical tiers without winners when neither yields anything.
C25_StrategiesInOrder ==
    ScrapedPrizes =>
        LET cells == replies[1].page.cells
            rows == positionalRows(cells)
        IN  /\ response.resp.Success
            /\ Len(response.resp.Payload.PrizeTiers) > 0
            /\ PrimaryYields(cells) =>
                  /\ response.resp.Payload.PrizeTiers[1].PowerballPrize
                        = labelGroup(cells, "Powerball Prize")[1]
                  /\ response.resp.Payload.PrizeTiers[1].PowerPlayPrize
                        = labelGroup(cells, "Power Play Prize")[1]
            /\ (~PrimaryYields(cells) /\ Len(rows) > 0) =>
                  /\ Len(response.resp.Payload.PrizeTiers) = Len(rows)
                  /\ \A i \in 1..Len(rows) :
                        /\ response.resp.Payload.PrizeTiers[i].PowerballWinners = rows[i].winners
                        /\ response.resp.Payload.PrizeTiers[i].PowerballPrize = rows[i].prize
                        /\ response.resp.Payload.PrizeTiers[i].PowerPlayWinners = rows[i].ppWinners
                        /\ response.resp.Payload.PrizeTiers[i].PowerPlayPrize = rows[i].ppPrize
            /\ (~PrimaryYields(cells) /\ Len(rows) = 0) =>
                  CanonicalPlaceholder(response.resp.Payload.PrizeTiers)

(***************************************************************************)
(* Concurrent ticket checks (SpecConcurrent).                              *)
(***************************************************************************)
\* What the evaluator returns for an input, taken as a function.
evaluated(input) ==
    IF input.game = "powerball"
    THEN checkPowerballTicket(input.ticketNumbers, input.bonusNumber, input.winningNumbers,
                              input.multiplier, input.estimatedJackpot)
    ELSE checkMegaMillionsTicket(input.ticketNumbers, input.bonusNumber,
                                 input.winningNumbers, input.multiplier)

\* Every check that returned gave what the evaluator gives for its inputs
\* alone, and what the first check of the same inputs gave.
SameResultEveryTime ==
    ev # Nil =>
        \A p \in Procs :
            ev[p].pc = "done" =>
                /\ ev[p].ret = evaluated(ev[p].in)
                /\ ev[p].ret = ev[p].first

\* A step changes the locals of one goroutine and nothing of another.
OneEvaluationMoves ==
    ev # Nil => \E p \in Procs : \A q \in Procs \ {p} : ev'[q] = ev[q]

\* C21: a ticket check returns the same result for the same inputs every
\* time, alone or interleaved with the check of another ticket, drawing or
\* game, and no step of one check changes anything of another.
C21_EvaluationIsPure ==
    /\ []SameResultEveryTime
    /\ [][OneEvaluationMoves]_vars

C21_Witness ==
    /\ ev # Nil
    /\ ev["a"].in.game = "powerball"
    /\ ev["a"].in.multiplier = 10
    /\ ev["a"].pc = "done"
    /\ ev["a"].runs = 2
    /\ ev["a"].ret.ok
    /\ ev["a"].ret.val.WhiteBallMatches = 5
    /\ ev["b"].in.game = "megamillions"
    /\ ev["b"].pc = "count"
    /\ ev["b"].runs = 1

====
